---- MODULE Spec2Model ----
(***************************************************************************)
(* Verification model of Proyecto_Grafos: the traveler's survival state    *)
(* (src/sim), the graph store (src/model/graph.py), the route planner      *)
(* (src/planner/dijkstra_planner.py) and the beam-search itinerary planner *)
(* (src/planner/beam_search.py).                                           *)
(*                                                                         *)
(* Floats are fixed-point integers: a value v stands for v / Scale.        *)
(* Python dicts (rules, star_attrs, edge_attrs) are functions with string  *)
(* domains; a nested key a["x"]["y"] is the flat key "x.y".                *)
(***************************************************************************)
EXTENDS Integers, Sequences, FiniteSets, TLC

VARIABLES
    burro,      \* the BurroState returned by the last simulate_* call
    prev,       \* the BurroState that call received
    input_after, \* the object that call received, as the call left it
    args,       \* the other arguments of that call, and the value r it drew
    nvisits,    \* number of simulate_visit calls made so far
    twin,       \* an independent run fed the same calls: state, events, heap
    events,     \* the events list that call returned
    lastOp,     \* "init" | "travel" | "visit"
    nsteps,     \* number of simulate_* calls made so far
    rngs,       \* heap of random.Random objects: <<[seed, pos], ...>>
    graph_model, \* the GraphModel: stars, edges and the shared NetworkX view
    graph_op,    \* the last GraphModel call: its name and the exception it raised
    route_G,     \* the nx.Graph the route handler holds (the shared view)
    route,       \* the last route query: its endpoints and what it returned
    beam_call,   \* the arguments of the beam_search call in progress
    beam_loc,    \* its local variables and its position
    beam_ret,    \* what it returned
    parse_data,  \* the scenario handed to the parser, and the parser's flags
    parse_out,   \* the parser output
    parse_graph, \* the graph built from the parser output
    handler,     \* the EventHandler's interaction fields
    handler_G,   \* the nx.Graph the handler holds
    handler_op,  \* the last step taken: its name, and the fields reset_mode changed
    workers,     \* the route proposal threads that are running
    path_call,   \* the arguments of the simulate_path call
    path_out     \* what it returned

simVars == <<burro, prev, input_after, args, nvisits, twin, events, lastOp, nsteps, rngs>>
graphVars == <<graph_model, graph_op>>
routeVars == <<route_G, route>>
beamVars == <<beam_call, beam_loc, beam_ret>>
parseVars == <<parse_data, parse_out, parse_graph>>
handlerVars == <<handler, handler_G, handler_op, workers>>
pathVars == <<path_call, path_out>>
vars == <<simVars, graphVars, routeVars, beamVars, parseVars, handlerVars, pathVars>>
\* what the calls of one component leave alone
exceptSim == <<graphVars, routeVars, beamVars, parseVars, handlerVars, pathVars>>
exceptGraph == <<simVars, routeVars, beamVars, parseVars, handlerVars, pathVars>>
exceptRoute == <<simVars, graphVars, beamVars, parseVars, handlerVars, pathVars>>
exceptBeam == <<simVars, graphVars, routeVars, parseVars, handlerVars, pathVars>>
exceptParse == <<simVars, graphVars, routeVars, beamVars, handlerVars, pathVars>>
exceptHandler == <<simVars, graphVars, routeVars, beamVars, parseVars, pathVars>>
exceptPath == <<simVars, graphVars, routeVars, beamVars, parseVars, handlerVars>>

-----------------------------------------------------------------------------
(* Numbers *)

Scale == 1000

Mul(a, b) == (a * b) \div Scale
Div(a, b) == (a * Scale) \div b
Min(a, b) == IF a < b THEN a ELSE b
Max(a, b) == IF a > b THEN a ELSE b
\* float('inf')
Inf == Scale * Scale * Scale

\* dict.get(k, default)
Get(d, k, default) == IF k \in DOMAIN d THEN d[k] ELSE default
\* truth value of a dict: {} is false
Truthy(d) == DOMAIN d # {}
EmptyDict == <<>>

\* A local variable: Op applied to the value of v, v being computed once
With(v, Op(_)) == CHOOSE y \in {Op(w) : w \in {v}} : TRUE

-----------------------------------------------------------------------------
(* src/sim/burro_state.py *)

HealthOrder == <<"Excellent", "Good", "Bad", "NearDeath", "Dead">>
HealthTiers == {HealthOrder[i] : i \in 1..Len(HealthOrder)}
IndexOf(h) == CHOOSE i \in 1..Len(HealthOrder) : HealthOrder[i] = h

None == 0
NoEvent == [type |-> "None"]

BurroState(node, life, health, energy, grass, rng) ==
    [node |-> node, life_years_left |-> life, health |-> health,
     energy_pct |-> energy, grass_kg |-> grass, age_years |-> 0,
     visited |-> {}, log |-> <<>>, last_event |-> NoEvent,
     event_log |-> <<>>, rng |-> rng]

\* a copy that leaves the event log behind
clone_NoHistory(s) == [s EXCEPT !.event_log = <<>>, !.rng = s.rng]

\* deepcopy of every field, the rng kept by reference
clone(s) == [s EXCEPT !.rng = s.rng]

\* a shallow copy: the containers are shared as well
clone_shared_Shallow == {"visited", "log", "event_log", "rng"}

\* the fields whose object the clone shares with the original
clone_shared == {"rng"}

\* the containers the simulation changes in place: log.append,
\* event_log.append, visited.add (the other fields are rebound on the clone)
MutatedInPlace == {"log", "event_log", "visited"}

\* the object a call received, after the call ended with its clone as s
input_after_call(state, s) ==
    [f \in DOMAIN state |->
        IF f \in clone_shared \cap MutatedInPlace THEN s[f] ELSE state[f]]

is_dead(s) ==
    s.health = "Dead" \/ s.life_years_left <= 0 \/ s.energy_pct <= 0

apply_energy_delta(s, delta_pct, rules) ==
    LET e1 == s.energy_pct + delta_pct
        e2 == IF Truthy(rules) /\ Get(rules, "energy.applyEnergyCap100", TRUE)
              THEN Min(100 * Scale, e1) ELSE e1
        e3 == IF e2 < 0 THEN 0 ELSE e2
    IN  [s EXCEPT !.energy_pct = e3]

\* apply_life_delta without the floor at 0
apply_life_delta_NoFloor(s, delta_years) ==
    [s EXCEPT !.life_years_left = @ + delta_years]

apply_life_delta(s, delta_years) ==
    LET l1 == s.life_years_left + delta_years
    IN  [s EXCEPT !.life_years_left = IF l1 < 0 THEN 0 ELSE l1]

add_log(s, msg) == [s EXCEPT !.log = Append(@, msg)]

\* The value a seeded generator yields at position pos of its stream, in [0, 1).
Stream(seed, pos) == ((seed * 389 + pos * 613 + 97) * 271) % Scale

\* a get_rng that seeds a new generator from the rules on every call
get_rng_Reseed(s, rules, heap) ==
    IF Get(rules, "rng_seed", None) # None
    THEN [s |-> [s EXCEPT !.rng = Len(heap) + 1],
          heap |-> Append(heap, [seed |-> rules["rng_seed"], pos |-> 0]),
          id |-> Len(heap) + 1]
    ELSE [s |-> s, heap |-> heap, id |-> s.rng]

\* get_rng: the state's generator, else one seeded from rules (and stored on the
\* state), else a fresh unseeded generator that is not stored.  Returns the
\* state, the heap and the generator's id (None for the unseeded one).
get_rng(s, rules, heap) ==
    IF s.rng # None
    THEN [s |-> s, heap |-> heap, id |-> s.rng]
    ELSE IF Get(rules, "rng_seed", None) # None
         THEN [s |-> [s EXCEPT !.rng = Len(heap) + 1],
               heap |-> Append(heap, [seed |-> rules["rng_seed"], pos |-> 0]),
               id |-> Len(heap) + 1]
         ELSE [s |-> s, heap |-> heap, id |-> None]

\* every draw taken from a generator that was not seeded
RandAt_Fresh(heap, id, ext, k) == ext[k]

\* The k-th next value of generator id; ext are the values of an unseeded one.
RandAt(heap, id, ext, k) ==
    IF id = None THEN ext[k] ELSE Stream(heap[id].seed, heap[id].pos + k - 1)

\* The heap after generator id has produced n values.
Advance(heap, id, n) ==
    IF id = None THEN heap ELSE [heap EXCEPT ![id].pos = @ + n]

\* a uniform draw scaled out of its range
Uniform_Doubled(a, b, u) == 2 * (a + Mul(b - a, u))

\* rng.uniform(a, b) from the unit draw u
Uniform(a, b, u) == a + Mul(b - a, u)

-----------------------------------------------------------------------------
(* src/sim/travel.py *)

simulate_travel(state, edge_attrs, rules) ==
    LET distance_ly == Get(edge_attrs, "distanceLy", Get(edge_attrs, "ly", 0))
        taf == Get(rules, "timeAndLife.distanceLyToYearsFactor", Scale \div 20)
        use_dist == Get(rules, "timeAndLife.useDistanceAsYearsOfLifeLoss", TRUE)
        years_loss == IF use_dist THEN Mul(distance_ly, taf)
                      ELSE Get(edge_attrs, "yearsCost", 0)
        ev1 == <<"Travelled", distance_ly, -years_loss>>
        eco_pct_per_ly == Get(rules, "energy.energyConsumptionPerLyPercent", 0)
        energy_loss == Mul(distance_ly, eco_pct_per_ly)
        ev2 == <<"Energy", -energy_loss>>
    IN  With(clone(state), LAMBDA s0 :
        With(add_log(apply_life_delta(s0, -years_loss), ev1), LAMBDA s1 :
        With(add_log(apply_energy_delta(s1, -energy_loss, rules), ev2), LAMBDA s2 :
            IF s2.life_years_left <= 0
            THEN [state |-> add_log([s2 EXCEPT !.health = "Dead"],
                                    <<"Death during travel">>),
                  events |-> <<ev1, ev2, <<"DIED_DURING_TRAVEL">> >>]
            ELSE [state |-> s2, events |-> <<ev1, ev2>>])))

-----------------------------------------------------------------------------
(* src/sim/visit.py *)

\* _degrade_health dropping two tiers at once
_degrade_health_Skip(curr) ==
    IF curr \notin HealthTiers THEN curr
    ELSE HealthOrder[Min(Len(HealthOrder), IndexOf(curr) + 2)]

_degrade_health(curr) ==
    IF curr \notin HealthTiers THEN curr
    ELSE IF IndexOf(curr) < Len(HealthOrder) THEN HealthOrder[IndexOf(curr) + 1]
         ELSE curr

_improve_health(curr) ==
    IF curr \notin HealthTiers THEN curr
    ELSE IF IndexOf(curr) = 1 THEN curr
         ELSE HealthOrder[IndexOf(curr) - 1]

\* visit_eat without the energy threshold
visit_eat_AnyEnergy(s, star_attrs, rules, inv_years) ==
    LET max_frac == Get(rules, "timeAndLife.maxFractionOfStayForEating", Scale \div 2)
        time_per_kg_years ==
            Get(star_attrs, "time_per_kg_years",
                Get(star_attrs, "time_to_consume_kg_years", Scale))
        max_eat_years == Mul(inv_years, max_frac)
        max_kg_by_time == IF time_per_kg_years > 0
                          THEN Div(max_eat_years, time_per_kg_years) ELSE Inf
        eat_threshold == Get(rules, "feeding.eatOnlyIfEnergyBelowPercent", 50 * Scale)
        min_kg == Get(rules, "feeding.minKgPerEat", Scale \div 10)
        desired == Min(Max(max_kg_by_time, min_kg), s.grass_kg)
        eg_map == Get(rules, "energy.energyGainPerKgByHealthPercent", EmptyDict)
        gain_per_kg == Get(eg_map, s.health, Get(eg_map, "Good", 3 * Scale))
        s1 == [s EXCEPT !.grass_kg = Max(0, s.grass_kg - desired)]
    IN  IF s.grass_kg > 0 /\ max_kg_by_time > 0
           /\ desired > 0
        THEN With(apply_energy_delta(s1, Mul(gain_per_kg, desired), rules), LAMBDA s2 :
             With(<<"ate", desired, s2.energy_pct - s.energy_pct>>, LAMBDA ev :
                 [state |-> add_log(s2, ev), events |-> <<ev>>, ate_kg |-> desired]))
        ELSE [state |-> s, events |-> <<>>, ate_kg |-> 0]

\* Eating: only below the threshold, with stock, limited by time and stock.
visit_eat(s, star_attrs, rules, inv_years) ==
    LET max_frac == Get(rules, "timeAndLife.maxFractionOfStayForEating", Scale \div 2)
        time_per_kg_years ==
            Get(star_attrs, "time_per_kg_years",
                Get(star_attrs, "time_to_consume_kg_years", Scale))
        max_eat_years == Mul(inv_years, max_frac)
        max_kg_by_time == IF time_per_kg_years > 0
                          THEN Div(max_eat_years, time_per_kg_years) ELSE Inf
        eat_threshold == Get(rules, "feeding.eatOnlyIfEnergyBelowPercent", 50 * Scale)
        min_kg == Get(rules, "feeding.minKgPerEat", Scale \div 10)
        desired == Min(Max(max_kg_by_time, min_kg), s.grass_kg)
        eg_map == Get(rules, "energy.energyGainPerKgByHealthPercent", EmptyDict)
        gain_per_kg == Get(eg_map, s.health, Get(eg_map, "Good", 3 * Scale))
        s1 == [s EXCEPT !.grass_kg = Max(0, s.grass_kg - desired)]
    IN  IF s.energy_pct < eat_threshold /\ s.grass_kg > 0 /\ max_kg_by_time > 0
           /\ desired > 0
        THEN With(apply_energy_delta(s1, Mul(gain_per_kg, desired), rules), LAMBDA s2 :
             With(<<"ate", desired, s2.energy_pct - s.energy_pct>>, LAMBDA ev :
                 [state |-> add_log(s2, ev), events |-> <<ev>>, ate_kg |-> desired]))
        ELSE [state |-> s, events |-> <<>>, ate_kg |-> 0]

\* Energy spent on research.
visit_investigate(s, star_attrs, rules, inv_years) ==
    LET invest_energy_pct_per_year ==
            Get(star_attrs, "invest_energy_per_year_pct",
                Get(rules, "energy.energyLossPerInvestigationYearPercent", 0))
        total_invest_loss == Mul(inv_years, invest_energy_pct_per_year)
        ev == <<"Investigated", inv_years, -total_invest_loss>>
    IN  [state |-> add_log(apply_energy_delta(s, -total_invest_loss, rules), ev),
         events |-> <<ev>>]

\* Fixed effects of the star (user overrides win).
visit_effects(s, star_attrs, uo) ==
    LET life_delta == Get(uo, "effects.life_delta_years",
                          Get(star_attrs, "effects.life_delta_years", 0))
        health_delta == Get(uo, "effects.health_delta",
                            Get(star_attrs, "effects.health_delta", ""))
        ev1 == <<"life_delta", life_delta>>
        s1 == IF life_delta # 0 THEN add_log(apply_life_delta(s, life_delta), ev1) ELSE s
        ev2 == <<"health_set_to", health_delta>>
        s2 == IF health_delta # "" THEN add_log([s1 EXCEPT !.health = health_delta], ev2)
              ELSE s1
    IN  [state |-> s2,
         events |-> (IF life_delta # 0 THEN <<ev1>> ELSE <<>>) \o
                    (IF health_delta # "" THEN <<ev2>> ELSE <<>>)]

\* Research outcome: r is drawn on every visit; u and r2 only in the branches
\* that use them.  Returns the state, the events and the number of draws made.
visit_outcome(s, rules, inv_years, old_energy, heap, id, ext) ==
    LET p_ill == Get(rules, "timeAndLife.investigation.p_illness", 0)
        p_succ == Get(rules, "timeAndLife.investigation.p_success", 0)
        ill_range == Get(rules, "timeAndLife.investigation.illness_life_loss_range",
                         <<Scale, 3 * Scale>>)
        succ_range == Get(rules, "timeAndLife.investigation.success_life_gain_range",
                          <<0, Scale>>)
        succ_improve_p == Get(rules, "timeAndLife.investigation.success_improve_health_p", 0)
        r == RandAt(heap, id, ext, 1)
        u == RandAt(heap, id, ext, 2)
        r2 == RandAt(heap, id, ext, 3)
        outcome_struct == [type |-> "investigation", outcome |-> "neutral",
                           life_delta |-> 0, health_from |-> s.health,
                           health_to |-> s.health,
                           energy_delta |-> s.energy_pct - old_energy,
                           note |-> ""]
        old_health == s.health
        \* illness
        life_loss == -Uniform(ill_range[1], ill_range[2], u)
        new_health == _degrade_health(old_health)
        ill_ev == <<"investigate:illness", life_loss, old_health, new_health>>
        s_ill == add_log([apply_life_delta(s, life_loss) EXCEPT !.health = new_health],
                         ill_ev)
        \* success
        life_gain == Uniform(succ_range[1], succ_range[2], u)
        improved == succ_improve_p > 0 /\ r2 < succ_improve_p
                    /\ _improve_health(old_health) # old_health
        s_gain == apply_life_delta(s, life_gain)
        s_succ0 == IF improved THEN [s_gain EXCEPT !.health = _improve_health(old_health)]
                   ELSE s_gain
        succ_ev == IF improved
                   THEN <<"investigate:successful", life_gain, old_health, s_succ0.health>>
                   ELSE <<"investigate:successful", life_gain>>
        s_succ == add_log(s_succ0, succ_ev)
        neu_ev == <<"investigate:neutral">>
    IN  IF inv_years > 0 /\ (p_ill > 0 \/ p_succ > 0)
        THEN IF r < p_ill
             THEN [state |-> s_ill, events |-> <<ill_ev>>, draws |-> 2,
                   outcome |-> [outcome_struct EXCEPT !.outcome = "illness",
                                    !.life_delta = life_loss,
                                    !.health_from = old_health,
                                    !.health_to = new_health]]
             ELSE IF r < p_ill + p_succ
             THEN [state |-> s_succ, events |-> <<succ_ev>>,
                   draws |-> IF succ_improve_p > 0 THEN 3 ELSE 2,
                   outcome |-> [outcome_struct EXCEPT !.outcome = "successful",
                                    !.life_delta = life_gain,
                                    !.health_from = old_health,
                                    !.health_to = s_succ0.health]]
             ELSE [state |-> add_log(s, neu_ev), events |-> <<neu_ev>>, draws |-> 1,
                   outcome |-> outcome_struct]
        ELSE [state |-> s, events |-> <<>>, draws |-> 1, outcome |-> outcome_struct]

\* Hypergiant: relative recharge of half the current energy, food multiplied.
visit_hypergiant(s, star_attrs, rules) ==
    LET relative_recharge_fraction == Scale \div 2
        old_e == s.energy_pct
        dup == Get(rules, "hypergiant.grassDuplicateMultiplier", 2)
    IN  IF Get(star_attrs, "hypergiant", FALSE)
        THEN With(apply_energy_delta(s, Mul(old_e, relative_recharge_fraction), rules),
                  LAMBDA s1 :
             With(<<"Hypergiant", s1.energy_pct - old_e, dup>>, LAMBDA ev :
                 [state |-> add_log([s1 EXCEPT !.grass_kg = s1.grass_kg * dup], ev),
                  events |-> <<ev>>]))
        ELSE [state |-> s, events |-> <<>>]

\* simulate_visit(state, star_attrs, rules, user_overrides); heap is the heap of
\* generators before the call, ext the values an unseeded generator would yield.
simulate_visit(state, star_attrs, rules, uo, heap, ext) ==
    LET inv_years == Get(uo, "investigation_years",
                         Get(star_attrs, "investigation_years", 0))
    IN  With(clone(state), LAMBDA s0 :
        With(visit_eat(s0, star_attrs, rules, inv_years), LAMBDA eat :
        With(visit_investigate(eat.state, star_attrs, rules, inv_years), LAMBDA inv :
        With(visit_effects(inv.state, star_attrs, uo), LAMBDA eff :
        With(get_rng(eff.state, rules, heap), LAMBDA g :
        With(visit_outcome(g.s, rules, inv_years, eat.state.energy_pct,
                           g.heap, g.id, ext), LAMBDA out :
        With([out.state EXCEPT !.last_event = out.outcome,
                               !.event_log = Append(@, out.outcome)], LAMBDA s5 :
        With(visit_hypergiant(s5, star_attrs, rules), LAMBDA hg :
        With([hg.state EXCEPT !.visited = @ \cup {hg.state.node}], LAMBDA s7 :
            LET died == s7.energy_pct <= 0 \/ s7.life_years_left <= 0
            IN  [state |-> IF died
                           THEN add_log([s7 EXCEPT !.health = "Dead"],
                                        <<"Death during visit">>)
                           ELSE s7,
                 events |-> eat.events \o inv.events \o eff.events \o out.events
                            \o hg.events
                            \o (IF died THEN << <<"DIED_DURING_VISIT">> >> ELSE <<>>),
                 heap |-> Advance(g.heap, g.id, out.draws),
                 r |-> RandAt(g.heap, g.id, ext, 1),
                 before_hypergiant |-> [energy_pct |-> s5.energy_pct,
                                        grass_kg |-> s5.grass_kg]])))))))))

-----------------------------------------------------------------------------
(* src/model/graph.py, src/utils/graph_utils.py: the graph store *)

\* An nx.Graph: its node set and, per unordered pair, the edge's attributes.
NoGraph == [exists |-> FALSE, nodes |-> {}, edges |-> EmptyDict]
NxGraph(nodes, edges) == [exists |-> TRUE, nodes |-> nodes, edges |-> edges]

\* GraphModel._edgeKey; networkx keeps one undirected edge per pair as well
_edgeKey(u, v) == IF u <= v THEN <<u, v>> ELSE <<v, u>>

\* A Star object.  The dataclass declares timeToEatHoursPerKg; the attribute
\* timeToEatYearsPerKg, which the view reads, is not among its fields.
Star(id) == [id |-> id]
star_has_timeToEatYearsPerKg(star) == FALSE

Edge(u, v, distanceLy, yearsCost, blocked) ==
    [u |-> u, v |-> v, distanceLy |-> distanceLy, yearsCost |-> yearsCost,
     blocked |-> blocked]

\* GraphModel.__init__
NewGraphModel == [stars |-> EmptyDict, edges |-> EmptyDict, nx |-> NoGraph]

\* the attribute dict add_edge receives
EdgeAttrs(e) ==
    [distanceLy |-> e.distanceLy, yearsCost |-> e.yearsCost, blocked |-> e.blocked]

\* nx.Graph.add_edge: creates or updates the edge and adds missing endpoints
nx_add_edge(G, u, v, attrs) ==
    [G EXCEPT !.nodes = @ \cup {u, v},
              !.edges = (_edgeKey(u, v) :> attrs) @@ @]

nx_has_edge(G, u, v) == _edgeKey(u, v) \in DOMAIN G.edges

RECURSIVE AddAllEdges(_, _, _)
AddAllEdges(G, edges, keys) ==
    IF keys = {} THEN G
    ELSE With(CHOOSE x \in keys : TRUE, LAMBDA k :
         With(nx_add_edge(G, edges[k].u, edges[k].v, EdgeAttrs(edges[k])), LAMBDA G1 :
         With(keys \ {k}, LAMBDA rest : AddAllEdges(G1, edges, rest))))

\* _ensure_nx: builds the view on first demand; reading timeToEatYearsPerKg of a
\* star that lacks it raises AttributeError and no view is stored.
_ensure_nx(gm) ==
    IF gm.nx.exists THEN [gm |-> gm, raised |-> ""]
    ELSE IF \E id \in DOMAIN gm.stars : ~star_has_timeToEatYearsPerKg(gm.stars[id])
    THEN [gm |-> gm, raised |-> "AttributeError"]
    ELSE [gm |-> [gm EXCEPT !.nx = AddAllEdges(NxGraph(DOMAIN gm.stars, EmptyDict),
                                               gm.edges, DOMAIN gm.edges)],
          raised |-> ""]

_add_edge_to_nx(gm, e) ==
    IF ~gm.nx.exists THEN gm
    ELSE [gm EXCEPT !.nx = nx_add_edge(@, e.u, e.v, EdgeAttrs(e))]

\* a variant that never synchronises the view
_set_edge_blocked_in_nx_Skip(gm, u, v, blocked) == gm

_set_edge_blocked_in_nx(gm, u, v, blocked) ==
    IF ~gm.nx.exists THEN gm
    ELSE IF nx_has_edge(gm.nx, u, v)
         THEN [gm EXCEPT !.nx.edges[_edgeKey(u, v)].blocked = blocked]
         ELSE gm

\* AddStar: the star is stored first, then the view is synchronised
AddStar(gm, star) ==
    LET gm1 == [gm EXCEPT !.stars = (star.id :> star) @@ @]
    IN  IF ~gm1.nx.exists THEN [gm |-> gm1, raised |-> ""]
        ELSE IF ~star_has_timeToEatYearsPerKg(star) THEN [gm |-> gm1, raised |-> "AttributeError"]
        ELSE [gm |-> [gm1 EXCEPT !.nx.nodes = @ \cup {star.id}], raised |-> ""]

AddEdge(gm, edge) ==
    _add_edge_to_nx([gm EXCEPT !.edges = (_edgeKey(edge.u, edge.v) :> edge) @@ @], edge)

HasEdge(gm, u, v) == _edgeKey(u, v) \in DOMAIN gm.edges
\* GetEdge, for a pair that has an edge
GetEdge(gm, u, v) == gm.edges[_edgeKey(u, v)]

SetEdgeBlocked(gm, u, v, blocked) ==
    IF HasEdge(gm, u, v)
    THEN _set_edge_blocked_in_nx(
             [gm EXCEPT !.edges[_edgeKey(u, v)].blocked = blocked], u, v, blocked)
    ELSE gm

\* a variant that blocks instead of flipping
ToggleEdgeBlocked_Blocks(gm, u, v) ==
    IF ~HasEdge(gm, u, v)
    THEN [gm |-> gm, raised |-> "KeyError", ret |-> FALSE]
    ELSE [gm |-> _set_edge_blocked_in_nx(
                     [gm EXCEPT !.edges[_edgeKey(u, v)].blocked = TRUE], u, v, TRUE),
          raised |-> "", ret |-> TRUE]

\* a variant that returns quietly for a missing edge
ToggleEdgeBlocked_Lenient(gm, u, v) ==
    IF ~HasEdge(gm, u, v)
    THEN [gm |-> gm, raised |-> "", ret |-> FALSE]
    ELSE LET new_state == ~GetEdge(gm, u, v).blocked
         IN  [gm |-> _set_edge_blocked_in_nx(
                         [gm EXCEPT !.edges[_edgeKey(u, v)].blocked = new_state],
                         u, v, new_state),
              raised |-> "", ret |-> new_state]

ToggleEdgeBlocked(gm, u, v) ==
    IF ~HasEdge(gm, u, v)
    THEN [gm |-> gm, raised |-> "KeyError", ret |-> FALSE]
    ELSE LET new_state == ~GetEdge(gm, u, v).blocked
         IN  [gm |-> _set_edge_blocked_in_nx(
                         [gm EXCEPT !.edges[_edgeKey(u, v)].blocked = new_state],
                         u, v, new_state),
              raised |-> "", ret |-> new_state]

\* Neighbors: adjacent ids whatever the blocked flag
Neighbors(gm, nodeId) ==
    {k[2] : k \in {x \in DOMAIN gm.edges : x[1] = nodeId}}
    \cup {k[1] : k \in {x \in DOMAIN gm.edges : x[1] # nodeId /\ x[2] = nodeId}}

\* ToNetworkX(copy=False): the shared view
ToNetworkX(gm) == _ensure_nx(gm)

\* a variant that keeps every edge
filtered_graph_nx_Keep(G) == G

\* filtered_graph_nx: a copy of G without the edges whose blocked is true
filtered_graph_nx(G) ==
    [G EXCEPT !.edges = [k \in {x \in DOMAIN G.edges : ~G.edges[x].blocked}
                            |-> G.edges[k]]]

-----------------------------------------------------------------------------
(* src/planner/dijkstra_planner.py, over networkx's weighted shortest path *)

nx_neighbors(G, u) == {v \in G.nodes : nx_has_edge(G, u, v)}

\* a variant that counts every edge as 1
nx_weight_Unit(G, u, v, weight) == Scale

\* the weight of edge (u, v): the attribute, 1 when the edge lacks it
nx_weight(G, u, v, weight) == Get(G.edges[_edgeKey(u, v)], weight, Scale)

\* Dijkstra's algorithm from the labels dist/pred with the nodes in done settled:
\* settle the closest unsettled labelled node and relax its edges.
RECURSIVE nx_dijkstra(_, _, _, _, _)
nx_dijkstra(G, weight, dist, pred, done) ==
    With({n \in G.nodes \ done : dist[n] < Inf}, LAMBDA fringe :
        IF fringe = {} THEN [dist |-> dist, pred |-> pred]
        ELSE With(CHOOSE n \in fringe : \A m \in fringe : dist[n] <= dist[m], LAMBDA u :
             With({v \in nx_neighbors(G, u) \ done :
                      dist[u] + nx_weight(G, u, v, weight) < dist[v]}, LAMBDA relax :
             With([v \in G.nodes |-> IF v \in relax
                                     THEN dist[u] + nx_weight(G, u, v, weight)
                                     ELSE dist[v]], LAMBDA dist1 :
             With([v \in G.nodes |-> IF v \in relax THEN u ELSE pred[v]], LAMBDA pred1 :
             With(done \cup {u}, LAMBDA done1 :
                 nx_dijkstra(G, weight, dist1, pred1, done1)))))))

RECURSIVE nx_path_to(_, _, _)
nx_path_to(pred, source, n) ==
    IF n = source THEN <<source>>
    ELSE With(pred[n], LAMBDA m : Append(nx_path_to(pred, source, m), n))

\* a variant that starts the source at a distance of one unit
nx_dijkstra_from_Offset(G, source, weight) ==
    nx_dijkstra(G, weight, [n \in G.nodes |-> IF n = source THEN Scale ELSE Inf],
                [n \in G.nodes |-> n], {})

nx_dijkstra_from(G, source, weight) ==
    nx_dijkstra(G, weight, [n \in G.nodes |-> IF n = source THEN 0 ELSE Inf],
                [n \in G.nodes |-> n], {})

\* nx.shortest_path(G, source, target, weight): the path, or the exception raised
nx_shortest_path(G, source, target, weight) ==
    IF source \notin G.nodes \/ target \notin G.nodes
    THEN [raised |-> "NodeNotFound", value |-> <<>>]
    ELSE With(nx_dijkstra_from(G, source, weight), LAMBDA d :
             IF d.dist[target] = Inf
             THEN [raised |-> "NetworkXNoPath", value |-> <<>>]
             ELSE [raised |-> "", value |-> nx_path_to(d.pred, source, target)])

\* nx.shortest_path_length(G, source, target, weight)
nx_shortest_path_length(G, source, target, weight) ==
    IF source \notin G.nodes THEN [raised |-> "NodeNotFound", value |-> 0]
    ELSE With(nx_dijkstra_from(G, source, weight), LAMBDA d :
             IF target \notin G.nodes \/ d.dist[target] = Inf
             THEN [raised |-> "NetworkXNoPath", value |-> 0]
             ELSE [raised |-> "", value |-> d.dist[target]])

\* the value None that shortest_path_dijkstra returns
NoRoute == [found |-> FALSE, path |-> <<>>, total |-> 0]

\* the exception shortest_path_dijkstra meets inside its try block ("" for none)
shortest_path_raised(G, source, target, weight) ==
    With(nx_shortest_path(G, source, target, weight), LAMBDA path :
        IF path.raised # "" THEN path.raised
        ELSE nx_shortest_path_length(G, source, target, weight).raised)

\* shortest_path_dijkstra: (path, total), or None when networkx raised
\* NetworkXNoPath or NodeNotFound
shortest_path_dijkstra(G, source, target, weight) ==
    IF shortest_path_raised(G, source, target, weight)
           \in {"NetworkXNoPath", "NodeNotFound"}
    THEN NoRoute
    ELSE [found |-> TRUE,
          path |-> nx_shortest_path(G, source, target, weight).value,
          total |-> nx_shortest_path_length(G, source, target, weight).value]

-----------------------------------------------------------------------------
(* src/planner/beam_search.py *)

\* round(x, 2): to the nearest hundredth, a tie going to the even one
round2(x) ==
    LET q == x \div 10
        r == x % 10
    IN  (IF r > 5 \/ (r = 5 /\ q % 2 = 1) THEN q + 1 ELSE q) * 10

_make_key(s) ==
    [node |-> s.node, visited |-> s.visited,
     life_rounded |-> round2(s.life_years_left),
     energy_rounded |-> round2(s.energy_pct),
     grass_rounded |-> round2(s.grass_kg)]

_score_for_sort(state) ==
    <<Cardinality(state.visited), state.life_years_left, state.energy_pct>>

\* Python's a > b on the score tuples
score_gt(a, b) ==
    \/ a[1] > b[1]
    \/ a[1] = b[1] /\ a[2] > b[2]
    \/ a[1] = b[1] /\ a[2] = b[2] /\ a[3] > b[3]

\* dataclasses.replace(s) with a copy of the visited set
_clone_state(s) == [s EXCEPT !.visited = s.visited]

_is_dead(s) == s.life_years_left <= 0 \/ s.health = "Dead"

\* list(Gnx.neighbors(u)) for a graph whose edges were added in key order
RECURSIVE ascending(_)
ascending(S) ==
    IF S = {} THEN <<>>
    ELSE With(CHOOSE x \in S : \A y \in S : x <= y, LAMBDA m :
         With(S \ {m}, LAMBDA rest : <<m>> \o ascending(rest)))

BeamItem(score, ord, state, path) ==
    [score |-> score, ord |-> ord, state |-> state, path |-> path]

\* Lines 86-121 for one neighbour v of a beam member.  acc carries the
\* candidates list, the expansions counter and the heap of generators; call
\* holds the arguments of beam_search and the counter order.
expand_neighbor(acc, item, v, call) ==
    LET state == item.state
        u == state.node
        e == call.Gnx.edges[_edgeKey(u, v)]
        expansions == acc.expansions + 1
        new_path == Append(item.path, v)
    IN  IF call.avoid_revisit /\ v \in state.visited THEN acc
        ELSE With([_clone_state(state) EXCEPT !.node = u], LAMBDA state_copy :
             With(simulate_travel(state_copy, e, call.rules), LAMBDA tr :
                 IF _is_dead(tr.state)
                 THEN [acc EXCEPT
                          !.candidates = Append(@, BeamItem(_score_for_sort(tr.state),
                                                    call.order + expansions, tr.state,
                                                    new_path)),
                          !.expansions = expansions,
                          !.travel_inputs = @ \cup {state_copy}]
                 ELSE With([tr.state EXCEPT !.node = v], LAMBDA arrived :
                      With(simulate_visit(arrived, call.Gnx.attrs[v], call.rules,
                                          EmptyDict, acc.heap, <<0, 0, 0>>), LAMBDA vis :
                      With([vis.state EXCEPT !.visited = @ \cup state.visited \cup {v}],
                           LAMBDA state_after_visit :
                          [candidates |-> Append(acc.candidates,
                                             BeamItem(_score_for_sort(state_after_visit),
                                                      call.order + expansions,
                                                      state_after_visit, new_path)),
                           expansions |-> expansions,
                           heap |-> vis.heap,
                           travel_inputs |-> acc.travel_inputs \cup {state_copy},
                           visit_inputs |-> acc.visit_inputs \cup {arrived}])))))

RECURSIVE expand_neighbors(_, _, _, _, _)
expand_neighbors(acc, item, neighbors, call, i) ==
    IF i > Len(neighbors) THEN acc
    ELSE With(expand_neighbor(acc, item, neighbors[i], call), LAMBDA acc1 :
             expand_neighbors(acc1, item, neighbors, call, i + 1))

\* Lines 82-121: every member of the beam, in beam order
RECURSIVE expand_beam(_, _, _, _)
expand_beam(acc, beam, call, i) ==
    IF i > Len(beam) THEN acc
    ELSE With(ascending(nx_neighbors(call.Gnx, beam[i].state.node)), LAMBDA neighbors :
         With(expand_neighbors(acc, beam[i], neighbors, call, 1), LAMBDA acc1 :
             expand_beam(acc1, beam, call, i + 1)))

\* position in uniq of the entry stored under key, 0 when there is none
key_index(uniq, key) ==
    IF \E i \in 1..Len(uniq) : _make_key(uniq[i].state) = key
    THEN CHOOSE i \in 1..Len(uniq) : _make_key(uniq[i].state) = key
    ELSE 0

\* a variant that keeps every candidate
dedupe_KeepAll(uniq, candidates, i) == candidates

\* Lines 128-137: unique_candidates, a dict in insertion order
RECURSIVE dedupe(_, _, _)
dedupe(uniq, candidates, i) ==
    IF i > Len(candidates) THEN uniq
    ELSE With(candidates[i], LAMBDA c :
         With(_make_key(c.state), LAMBDA key :
         With(key_index(uniq, key), LAMBDA at :
         With(IF at = 0 THEN Append(uniq, c)
              ELSE IF score_gt(c.score, uniq[at].score)
                   THEN [uniq EXCEPT ![at] = c]
                   ELSE uniq, LAMBDA uniq1 :
             dedupe(uniq1, candidates, i + 1)))))

\* Lines 140-141: list.sort(key=score, reverse=True); equal scores keep their order
RECURSIVE sort_desc(_, _, _)
sort_desc(sorted, items, i) ==
    IF i > Len(items) THEN sorted
    ELSE With(items[i], LAMBDA x :
         With(Cardinality({j \in 1..Len(sorted) : ~score_gt(x.score, sorted[j].score)}),
              LAMBDA n :
         With(SubSeq(sorted, 1, n) \o <<x>> \o SubSeq(sorted, n + 1, Len(sorted)),
              LAMBDA sorted1 :
             sort_desc(sorted1, items, i + 1))))

\* update_best preferring fewer visited stars
RECURSIVE update_best_FewerVisited(_, _, _)
update_best_FewerVisited(best, beam, i) ==
    IF i > Len(beam) THEN best
    ELSE LET st == beam[i].state
             visited_count == Cardinality(st.visited)
             better ==
                 \/ visited_count < best.best_visited
                 \/ /\ visited_count = best.best_visited
                    /\ \/ st.life_years_left > best.best_state.life_years_left
                       \/ st.energy_pct > best.best_state.energy_pct
         IN  With(IF better
                  THEN [best_state |-> st, best_path |-> beam[i].path,
                        best_visited |-> visited_count]
                  ELSE best, LAMBDA best1 :
                 update_best_FewerVisited(best1, beam, i + 1))

\* Lines 149-154: the best solution after looking at every member of the beam
RECURSIVE update_best(_, _, _)
update_best(best, beam, i) ==
    IF i > Len(beam) THEN best
    ELSE LET st == beam[i].state
             visited_count == Cardinality(st.visited)
             better ==
                 \/ visited_count > best.best_visited
                 \/ /\ visited_count = best.best_visited
                    /\ \/ st.life_years_left > best.best_state.life_years_left
                       \/ st.energy_pct > best.best_state.energy_pct
         IN  With(IF better
                  THEN [best_state |-> st, best_path |-> beam[i].path,
                        best_visited |-> visited_count]
                  ELSE best, LAMBDA best1 :
                 update_best(best1, beam, i + 1))

\* a variant that reports every stop as the depth limit
beam_result_AlwaysMaxDepth(loc, reason) ==
    [returned |-> TRUE,
     path |-> loc.best_path,
     meta |-> [final_state |-> loc.best_state, visited_count |-> loc.best_visited,
               expansions |-> loc.expansions, depth_reached |-> loc.depth_reached,
               reason_stop |-> "max_depth_reached"]]

\* Lines 164-171: the value returned after the loop
beam_result(loc, reason) ==
    [returned |-> TRUE,
     path |-> loc.best_path,
     meta |-> [final_state |-> loc.best_state, visited_count |-> loc.best_visited,
               expansions |-> loc.expansions, depth_reached |-> loc.depth_reached,
               reason_stop |-> reason]]

NoReturn == [returned |-> FALSE, path |-> <<>>, meta |-> EmptyDict]

\* the locals of beam_search before the call; travel_inputs and visit_inputs
\* are the states the last round handed to simulate_travel and simulate_visit
NoLocals ==
    [pc |-> "idle", beam |-> <<>>, best_state |-> NoEvent, best_path |-> <<>>,
     best_visited |-> 0, expansions |-> 0, order |-> 0, depth_reached |-> 0,
     candidates |-> <<>>, heap |-> <<>>, travel_inputs |-> {}, visit_inputs |-> {}]

\* beam_enter with the initial beam entry and best_path left empty
beam_enter_EmptyPath(call) ==
    LET start_state == [call.start_state EXCEPT !.visited = @ \cup {call.start_state.node}]
        loc == [pc |-> "loop",
                beam |-> <<BeamItem(_score_for_sort(start_state), 0, start_state, <<>>)>>,
                best_state |-> start_state, best_path |-> <<>>,
                best_visited |-> Cardinality(start_state.visited),
                expansions |-> 0, order |-> 0, depth_reached |-> 0,
                candidates |-> <<>>, heap |-> call.heap,
                travel_inputs |-> {}, visit_inputs |-> {}]
    IN  IF call.start_state.life_years_left <= 0
        THEN [call |-> call, loc |-> [NoLocals EXCEPT !.pc = "done"],
              ret |-> [returned |-> TRUE, path |-> <<>>,
                       meta |-> [reason_stop |-> "start_dead",
                                 final_state |-> call.start_state,
                                 visited_count |-> 0]]]
        ELSE IF call.max_depth < 1
        THEN [call |-> [call EXCEPT !.start_state = start_state],
              loc |-> [loc EXCEPT !.pc = "done"],
              ret |-> beam_result(loc, "max_depth_reached")]
        ELSE [call |-> [call EXCEPT !.start_state = start_state],
              loc |-> loc, ret |-> NoReturn]

\* Lines 52-76: the defensive check and the initial beam
beam_enter(call) ==
    LET start_state == [call.start_state EXCEPT !.visited = @ \cup {call.start_state.node}]
        loc == [pc |-> "loop",
                beam |-> <<BeamItem(_score_for_sort(start_state), 0, start_state,
                                    <<start_state.node>>)>>,
                best_state |-> start_state, best_path |-> <<start_state.node>>,
                best_visited |-> Cardinality(start_state.visited),
                expansions |-> 0, order |-> 0, depth_reached |-> 0,
                candidates |-> <<>>, heap |-> call.heap,
                travel_inputs |-> {}, visit_inputs |-> {}]
    IN  IF call.start_state.life_years_left <= 0
        THEN [call |-> call, loc |-> [NoLocals EXCEPT !.pc = "done"],
              ret |-> [returned |-> TRUE, path |-> <<>>,
                       meta |-> [reason_stop |-> "start_dead",
                                 final_state |-> call.start_state,
                                 visited_count |-> 0]]]
        ELSE IF call.max_depth < 1
        THEN [call |-> [call EXCEPT !.start_state = start_state],
              loc |-> [loc EXCEPT !.pc = "done"],
              ret |-> beam_result(loc, "max_depth_reached")]
        ELSE [call |-> [call EXCEPT !.start_state = start_state],
              loc |-> loc, ret |-> NoReturn]

\* Lines 78-162: one pass of the loop over depth, and the return when it ends
beam_round(call, loc) ==
    With(loc.depth_reached + 1, LAMBDA depth :
    With([call EXCEPT !.order = loc.order], LAMBDA call1 :
    With(expand_beam([candidates |-> <<>>, expansions |-> loc.expansions,
                      heap |-> loc.heap, travel_inputs |-> {}, visit_inputs |-> {}],
                     loc.beam, call1, 1), LAMBDA exp :
    With([loc EXCEPT !.depth_reached = depth, !.candidates = exp.candidates,
                     !.expansions = exp.expansions, !.heap = exp.heap,
                     !.travel_inputs = exp.travel_inputs,
                     !.visit_inputs = exp.visit_inputs], LAMBDA loc1 :
        IF exp.candidates = <<>>
        THEN [loc |-> [loc1 EXCEPT !.pc = "done"],
              ret |-> beam_result(loc1, "no_candidates")]
        ELSE
    With(dedupe(<<>>, exp.candidates, 1), LAMBDA unique_candidates :
    With(sort_desc(<<>>, unique_candidates, 1), LAMBDA uniq_list :
    With(SubSeq(uniq_list, 1, Min(call.beam_width, Len(uniq_list))), LAMBDA beam :
    With(update_best([best_state |-> loc.best_state, best_path |-> loc.best_path,
                      best_visited |-> loc.best_visited], beam, 1), LAMBDA best :
    With([loc1 EXCEPT !.beam = beam, !.best_state = best.best_state,
                      !.best_path = best.best_path,
                      !.best_visited = best.best_visited], LAMBDA loc2 :
        IF \A i \in 1..Len(beam) : _is_dead(beam[i].state)
        THEN [loc |-> [loc2 EXCEPT !.pc = "done"], ret |-> beam_result(loc2, "all_dead")]
        ELSE IF depth >= call.max_depth
        THEN [loc |-> [loc2 EXCEPT !.pc = "done"],
              ret |-> beam_result(loc2, "max_depth_reached")]
        ELSE [loc |-> loc2, ret |-> NoReturn])))))))))

-----------------------------------------------------------------------------
(* Inputs of the simulation: rules bundles, stars, edges, start states *)

\* rules = {}
RulesEmpty == EmptyDict

\* DEFAULT_RULES of tests/test_simulation_years.py
RulesDefault ==
    ("timeAndLife.distanceLyToYearsFactor" :> Scale \div 20)
    @@ ("timeAndLife.useDistanceAsYearsOfLifeLoss" :> TRUE)
    @@ ("timeAndLife.maxFractionOfStayForEating" :> Scale \div 2)
    @@ ("energy.energyConsumptionPerLyPercent" :> Scale \div 2)
    @@ ("energy.energyGainPerKgByHealthPercent" :>
            [h \in HealthTiers |->
                CASE h = "Excellent" -> 5 * Scale [] h = "Good" -> 3 * Scale
                  [] h = "Bad" -> 2 * Scale [] h = "NearDeath" -> Scale
                  [] OTHER -> 0])
    @@ ("energy.applyEnergyCap100" :> TRUE)
    @@ ("feeding.eatOnlyIfEnergyBelowPercent" :> 50 * Scale)
    @@ ("feeding.minKgPerEat" :> Scale \div 10)

\* DEFAULT_RULES with research outcomes enabled: the probabilities of BASE_RULES
\* in tests/test_investigation_sequence.py, the research energy loss of the
\* rules in tests/test_beam_search.py
RulesInvestigate ==
    ("timeAndLife.investigation.p_illness" :> (2 * Scale) \div 5)
    @@ ("timeAndLife.investigation.p_success" :> (2 * Scale) \div 5)
    @@ ("timeAndLife.investigation.success_improve_health_p" :> Scale \div 2)
    @@ ("energy.energyLossPerInvestigationYearPercent" :> Scale \div 5)
    @@ RulesDefault

\* the same with a seed for the random source
RulesSeeded == ("rng_seed" :> 7) @@ RulesInvestigate

RulesSet == {RulesEmpty, RulesDefault, RulesInvestigate, RulesSeeded}

\* DEFAULT_RULES with the life loss of a travel read from the edge's
\* yearsCost, and a factor other than the one the parser priced the edges with
RulesYearsCost ==
    ("timeAndLife.useDistanceAsYearsOfLifeLoss" :> FALSE)
    @@ ("timeAndLife.distanceLyToYearsFactor" :> Scale \div 10)
    @@ RulesDefault

\* DEFAULT_RULES with the hypergiant block of tests/test_ui_helpers.py, set to
\* values other than the defaults
RulesHyper ==
    ("hypergiant.grassDuplicateMultiplier" :> 3)
    @@ ("hypergiant.energyRechargeMultiplier" :> 2 * Scale)
    @@ RulesDefault

StarPlain == EmptyDict
\* the star of test_simulate_visit_eating_and_investigation_and_hypergiant_years
StarHyper ==
    ("time_per_kg_years" :> Scale) @@ ("investigation_years" :> 4 * Scale)
    @@ ("hypergiant" :> TRUE)
StarResearch ==
    ("investigation_years" :> 2 * Scale) @@ ("invest_energy_per_year_pct" :> 30 * Scale)
StarEffects ==
    ("effects.life_delta_years" :> 2 * Scale) @@ ("effects.health_delta" :> "Good")

\* a stay too short to eat the minimum portion
StarBrief == ("investigation_years" :> Scale \div 10) @@ ("time_per_kg_years" :> Scale)

\* a star with a cap on the food eaten per visit (the key ui_helpers reads)
StarRationed ==
    ("investigation_years" :> 4 * Scale) @@ ("time_per_kg_years" :> Scale)
    @@ ("max_kg_consumable_per_visit_kg" :> Scale \div 2)

StarSet == {StarPlain, StarHyper, StarResearch, StarEffects, StarBrief, StarRationed}

\* no caller passes user_overrides
OverridesSet == {EmptyDict}

EdgeShort == ("distanceLy" :> Scale) @@ ("yearsCost" :> Scale \div 20)
EdgeLong == ("distanceLy" :> 20 * Scale) @@ ("yearsCost" :> Scale)
EdgeFar == ("distanceLy" :> 200 * Scale) @@ ("yearsCost" :> 10 * Scale)

EdgeSet == {EdgeShort, EdgeLong, EdgeFar}

\* values of an unseeded generator: <<r, u, r2>>
ExtSet == {<<r, x, x>> : r \in {0, (2 * Scale) \div 5, (4 * Scale) \div 5},
                         x \in {0, Scale - 1}}

\* values of an unseeded generator in the twin run: an early and a late draw
TwinExtSet == {<<0, 0, 0>>, <<(4 * Scale) \div 5, Scale - 1, Scale - 1>>}

NodeSet == {1}

StartStates ==
    {BurroState(None, life, h, e, g, None) :
        life \in {Scale \div 2, 20 * Scale}, h \in {"Excellent", "NearDeath"},
        e \in {40 * Scale, 100 * Scale}, g \in {0, 2 * Scale}}

\* make_initial_state(seed=12345) of tests/test_investigation_sequence.py: a
\* state bound to the first generator of the heap
TestSeed == 12345
BoundStartStates ==
    {BurroState(None, 100 * Scale, "Good", e, 5 * Scale, 1) :
        e \in {40 * Scale, 100 * Scale}}
BoundHeap == <<[seed |-> TestSeed, pos |-> 0]>>

NoArgs ==
    [edge_attrs |-> EmptyDict, star_attrs |-> EmptyDict, rules |-> EmptyDict, r |-> 0,
     before_hypergiant |-> [energy_pct |-> 0, grass_kg |-> 0]]

MaxSteps == 2

-----------------------------------------------------------------------------
(* A chain of simulate_travel / simulate_visit calls, each fed the state the *)
(* previous call returned.                                                  *)

-----------------------------------------------------------------------------
(* src/utils/parser.py, src/model/graph.py, src/gui/loadGraph.py: loading a
   scenario *)

\* the value of a variable that holds nothing yet
NoData == [stars |-> {}, edges |-> <<>>, enforceBidirectional |-> TRUE,
           repairMissingInverseEdge |-> TRUE, star_input |-> <<>>, seed |-> 0]
NoOutput == [pc |-> "none", stars |-> {}, edges |-> <<>>, warnings |-> 0,
             star_attrs |-> <<>>]

\* the per-star simulation attributes and their ranges: INVESTIGATION_YEARS_RANGE,
\* TIME_PER_KG_YEARS_RANGE, INVEST_ENERGY_PCT_RANGE
STAR_DEFAULT_KEYS ==
    <<"investigation_years", "time_per_kg_years", "invest_energy_per_year_pct">>
StarDefaultRange(k) ==
    IF k = 3 THEN <<Scale \div 20, Scale \div 2>> ELSE <<Scale, 5 * Scale>>

\* parser.py 67-76: the entry of starsById is built from a fixed list of keys
\* of the input star; the three simulation attributes are not among them
star_entry(s) == ("hypergiant" :> Get(s, "hypergiant", FALSE))

\* the three tests of one star: an attribute that is missing is drawn from its
\* range with the next value of the generator (at position pos of its stream)
RECURSIVE fill_defaults(_, _, _, _)
fill_defaults(attr, seed, pos, k) ==
    IF k > Len(STAR_DEFAULT_KEYS) THEN [attr |-> attr, pos |-> pos]
    ELSE IF STAR_DEFAULT_KEYS[k] \in DOMAIN attr
    THEN fill_defaults(attr, seed, pos, k + 1)
    ELSE With(StarDefaultRange(k), LAMBDA range :
         With((STAR_DEFAULT_KEYS[k] :> Uniform(range[1], range[2], Stream(seed, pos)))
              @@ attr, LAMBDA attr1 :
             fill_defaults(attr1, seed, pos + 1, k + 1)))

\* the loop over the stars, in the order of the list ids
RECURSIVE fill_stars(_, _, _, _, _)
fill_stars(attrs, ids, seed, pos, i) ==
    IF i > Len(ids) THEN attrs
    ELSE With(fill_defaults(attrs[ids[i]], seed, pos, 1), LAMBDA f :
             fill_stars([attrs EXCEPT ![ids[i]] = f.attr], ids, seed, f.pos, i + 1))

\* populate_star_defaults(nodes, seed) on the attribute dicts of the nodes
populate_star_defaults(nodes, seed) ==
    fill_stars(nodes, ascending(DOMAIN nodes), seed, 0, 1)
NoBuild == [op |-> "none", raised |-> "", gm |-> NewGraphModel, G |-> NoGraph]

\* the pairs (u, v) of a list of edges
PairsOf(edges) == {<<edges[i].u, edges[i].v>> : i \in 1..Len(edges)}

\* parser.py, the loop over edgesInput: an edge naming a star that is not
\* defined is dropped with a warning; the flag defaults to False.
RECURSIVE NormalizeEdges(_, _, _)
NormalizeEdges(edgesInput, stars, i) ==
    IF i > Len(edgesInput) THEN <<>>
    ELSE With(edgesInput[i], LAMBDA e :
         With(NormalizeEdges(edgesInput, stars, i + 1), LAMBDA rest :
             IF e.u \notin stars \/ e.v \notin stars THEN rest
             ELSE <<[u |-> e.u, v |-> e.v, blocked |-> e.blocked]>> \o rest))

\* parser.py, the loop over edgesNorm: the inverse of an edge is added, with the
\* edge's flag, only when no edge (v, u) has been seen.
RECURSIVE InverseEdges(_, _, _, _)
InverseEdges(edgesNorm, seen, repair, i) ==
    IF i > Len(edgesNorm) THEN <<>>
    ELSE With(edgesNorm[i], LAMBDA a :
         IF <<a.v, a.u>> \notin seen /\ repair
         THEN With(seen \cup {<<a.v, a.u>>}, LAMBDA seen1 :
              With(InverseEdges(edgesNorm, seen1, repair, i + 1), LAMBDA rest :
                  <<[u |-> a.v, v |-> a.u, blocked |-> a.blocked]>> \o rest))
         ELSE InverseEdges(edgesNorm, seen, repair, i + 1))

DISTANCE_TO_YEARS_FACTOR_DEFAULT == Scale \div 20

\* the stars of the scenarios lie on a line, star id at x = id
EuclideanDistance(u, v) == (IF u > v THEN u - v ELSE v - u) * Scale

\* BuildParserOutputFromJson, for a scenario whose stars are well formed
BuildParserOutputFromJson(data) ==
    With(NormalizeEdges(data.edges, data.stars, 1), LAMBDA edgesNorm :
    With(IF data.enforceBidirectional
         THEN edgesNorm \o InverseEdges(edgesNorm, PairsOf(edgesNorm),
                                        data.repairMissingInverseEdge, 1)
         ELSE edgesNorm, LAMBDA edgesAll :
        [pc |-> "parsed",
         stars |-> data.stars,
         star_attrs |-> fill_stars([sid \in data.stars |-> star_entry(data.star_input[sid])],
                                   ascending(data.stars), data.seed, 0, 1),
         edges |-> [i \in 1..Len(edgesAll) |->
                       [u |-> edgesAll[i].u, v |-> edgesAll[i].v,
                        blocked |-> edgesAll[i].blocked,
                        distanceLy |-> EuclideanDistance(edgesAll[i].u, edgesAll[i].v),
                        yearsCost |-> Mul(EuclideanDistance(edgesAll[i].u, edgesAll[i].v),
                                          DISTANCE_TO_YEARS_FACTOR_DEFAULT)]],
         warnings |-> Len(data.edges) - Len(edgesNorm)]))

\* BuildFromParserOutput, the loop over the edges: each edge whose stars are in
\* the model is stored with AddEdge under its key, the later one replacing the
\* earlier one.
RECURSIVE AddParsedEdges(_, _, _)
AddParsedEdges(gm, edges, i) ==
    IF i > Len(edges) THEN gm
    ELSE With(edges[i], LAMBDA e :
         IF e.u \notin DOMAIN gm.stars \/ e.v \notin DOMAIN gm.stars
         THEN AddParsedEdges(gm, edges, i + 1)
         ELSE With(AddEdge(gm, Edge(e.u, e.v, e.distanceLy, e.yearsCost, e.blocked)),
                   LAMBDA gm1 : AddParsedEdges(gm1, edges, i + 1)))

\* GraphModel.BuildFromParserOutput: the first star is constructed with the
\* keyword timeToEatYearsPerKg, which the Star dataclass does not declare, so
\* the call raises TypeError before any star or edge is stored.
BuildFromParserOutput(parserOutput) ==
    IF parserOutput.stars # {}
    THEN [op |-> "BuildFromParserOutput", raised |-> "TypeError",
          gm |-> NewGraphModel, G |-> NoGraph]
    ELSE [op |-> "BuildFromParserOutput", raised |-> "",
          gm |-> AddParsedEdges(NewGraphModel, parserOutput.edges, 1), G |-> NoGraph]

\* _graph_from_parsed of tests/test_beam_search.py: an nx.Graph with a node per
\* star and add_edge per parsed edge, in the order of the list
RECURSIVE nx_add_parsed_edges(_, _, _)
nx_add_parsed_edges(G, edges, i) ==
    IF i > Len(edges) THEN G
    ELSE With(nx_add_edge(G, edges[i].u, edges[i].v, EdgeAttrs(edges[i])), LAMBDA G1 :
             nx_add_parsed_edges(G1, edges, i + 1))

_graph_from_parsed(parsed) ==
    [op |-> "_graph_from_parsed", raised |-> "", gm |-> NewGraphModel,
     G |-> nx_add_parsed_edges(NxGraph(parsed.stars, EmptyDict), parsed.edges, 1)]

ParseIdle == parse_data = NoData /\ parse_out = NoOutput /\ parse_graph = NoBuild

-----------------------------------------------------------------------------
(* src/gui/event_handler.py: the interaction controller *)

MODE_NONE == 0
MODE_BLOCK == 1
MODE_ROUTE_SELECT == 2

\* None for a path, and for the sums of a proposal
NoPath == <<>>
NoSums == [set |-> FALSE, sum_ly |-> 0, sum_years |-> 0]

\* EventHandler.__init__
NewEventHandler ==
    [_block_mode_locked |-> FALSE, _route_worker_active |-> FALSE,
     mode |-> MODE_NONE, route_selection_stage |-> 0,
     route_origin |-> None, route_target |-> None, current_path |-> NoPath,
     selected_origin |-> None, selected_target |-> None,
     proposed_path |-> NoPath, proposed_sums |-> NoSums, form |-> "none"]

\* self.form.hide(), when a form exists
hide_form(h) == IF h.form = "none" THEN h ELSE [h EXCEPT !.form = "hidden"]

toggle_block_mode(h) ==
    IF h._block_mode_locked THEN h
    ELSE IF h.mode # MODE_NONE THEN h
    ELSE With([h EXCEPT !.mode = IF h.mode # MODE_BLOCK THEN MODE_BLOCK ELSE MODE_NONE],
              LAMBDA h1 :
             IF h1.mode = MODE_BLOCK
             THEN [h1 EXCEPT !.route_selection_stage = 0,
                             !.route_origin = None, !.route_target = None,
                             !.selected_origin = None, !.selected_target = None]
             ELSE h1)

start_route_selection(h) ==
    [h EXCEPT !.selected_origin = None, !.selected_target = None,
              !.route_origin = None, !.route_target = None,
              !.proposed_path = NoPath, !.proposed_sums = NoSums,
              !._block_mode_locked = TRUE,
              !.mode = MODE_ROUTE_SELECT,
              !.route_selection_stage = 1,
              !.current_path = NoPath]

\* a variant that leaves the selection as it was
reset_mode_KeepSelection(h) ==
    [hide_form(h) EXCEPT !.mode = MODE_NONE, !.route_selection_stage = 0,
                         !.proposed_path = NoPath, !.proposed_sums = NoSums,
                         !.current_path = NoPath,
                         !._block_mode_locked = FALSE, !._route_worker_active = FALSE]

reset_mode(h) ==
    [hide_form(h) EXCEPT !.mode = MODE_NONE,
                         !.route_selection_stage = 0,
                         !.route_origin = None, !.route_target = None,
                         !.selected_origin = None, !.selected_target = None,
                         !.proposed_path = NoPath, !.proposed_sums = NoSums,
                         !.current_path = NoPath,
                         !._block_mode_locked = FALSE,
                         !._route_worker_active = FALSE]

close_form(h) ==
    [hide_form(h) EXCEPT !.selected_origin = None, !.selected_target = None,
                         !.route_origin = None, !.route_target = None,
                         !.current_path = NoPath,
                         !.proposed_path = NoPath, !.proposed_sums = NoSums]

finalize_route_calculation(h) ==
    IF h.proposed_path = NoPath THEN h
    ELSE [h EXCEPT !.current_path = h.proposed_path]

\* _handle_block_click on an edge the click picked: the flag of the edge flips
\* in the shared view and the drawn route is dropped
_handle_block_click(h, G, k) ==
    [h |-> [h EXCEPT !.current_path = NoPath],
     G |-> [G EXCEPT !.edges[k].blocked = ~@]]

\* on_click in route selection on a node: the first click takes the origin,
\* the second the target; a target equal to the origin is answered at once
\* with the path [origin], any other target starts a worker thread.
on_click_node(h, node) ==
    IF h.route_selection_stage = 1
    THEN [h |-> [h EXCEPT !.route_origin = node, !.selected_origin = node,
                          !.route_selection_stage = 2],
          start |-> FALSE]
    ELSE With([h EXCEPT !.route_target = node, !.selected_target = node], LAMBDA h1 :
         IF h1.route_origin = h1.route_target
         THEN [h |-> [h1 EXCEPT !.current_path = <<h1.route_origin>>,
                                !.route_selection_stage = 0, !.mode = MODE_NONE],
               start |-> FALSE]
         ELSE [h |-> [h1 EXCEPT !.route_selection_stage = 0, !.mode = MODE_NONE],
               start |-> TRUE])

\* a worker thread: its position, its endpoints, what the planner returned
Worker(origin, target) ==
    [pc |-> "start", origin |-> origin, target |-> target, res |-> NoRoute]

\* the sums of the worker over the edges of the path, read from self.G,
\* leaving out an edge that has been blocked meanwhile
RECURSIVE worker_sum(_, _, _, _)
worker_sum(G, path, attr, i) ==
    IF i >= Len(path) THEN 0
    ELSE With(Get(G.edges, _edgeKey(path[i], path[i + 1]), EmptyDict), LAMBDA attrs :
         With(worker_sum(G, path, attr, i + 1), LAMBDA rest :
             IF Get(attrs, "blocked", FALSE) THEN rest
             ELSE Get(attrs, attr, 0) + rest))

\* the worker writing its result under the state lock
worker_write(h, G, w) ==
    IF ~w.res.found
    THEN [h EXCEPT !.proposed_path = NoPath,
                   !.proposed_sums = [set |-> TRUE, sum_ly |-> 0, sum_years |-> 0],
                   !.selected_origin = None, !.selected_target = None,
                   !.route_origin = None, !.route_target = None]
    ELSE [h EXCEPT !.proposed_path = w.res.path,
                   !.proposed_sums = [set |-> TRUE,
                                      sum_ly |-> worker_sum(G, w.res.path, "distanceLy", 1),
                                      sum_years |-> worker_sum(G, w.res.path, "yearsCost", 1)],
                   !.form = "shown"]

\* the finally block of the worker
worker_release(h) == [h EXCEPT !._route_worker_active = FALSE, !._block_mode_locked = FALSE]
worker_cleanup(h) ==
    IF h.proposed_path = NoPath
    THEN [h EXCEPT !.selected_origin = None, !.selected_target = None,
                   !.route_origin = None, !.route_target = None]
    ELSE h

\* the graph of the fixture in tests/test_event_handler.py
FixtureGraph ==
    NxGraph({1, 2}, (<<1, 2>> :> [distanceLy |-> 10 * Scale, yearsCost |-> 5 * Scale,
                                  blocked |-> FALSE]))

NoOp == [name |-> "idle", changed |-> {}]
HandlerIdle ==
    /\ handler = NewEventHandler
    /\ handler_G = NoGraph
    /\ handler_op = NoOp
    /\ workers = <<>>

-----------------------------------------------------------------------------
(* src/sim/run_simulation.py *)

\* Lines 29-38, the travel of one hop.  simulate_travel is called with five
\* arguments (s, u, v, edge_attrs, rules) and takes three, so the call raises
\* TypeError before its body runs; the except branch charges the edge's
\* yearsCost to the life on s itself.  Then s.node = v.
travel_hop(s, v, edge_attrs) ==
    [apply_life_delta(s, -Get(edge_attrs, "yearsCost", 0)) EXCEPT !.node = v]

\* Lines 23-46: the loop over path[start_idx:].  acc holds s, the two sums and
\* the heap of generators.
RECURSIVE path_loop(_, _, _, _, _)
path_loop(acc, path, G, rules, i) ==
    IF i > Len(path) THEN acc
    ELSE With(acc.s.node, LAMBDA u :
         With(path[i], LAMBDA v :
         With(Get(G.edges, _edgeKey(u, v), EmptyDict), LAMBDA edge_attrs :
         With(IF u # None /\ u # v
              THEN [acc EXCEPT !.s = travel_hop(acc.s, v, edge_attrs),
                               !.sum_ly = @ + Get(edge_attrs, "distanceLy", 0),
                               !.sum_years = @ + Get(edge_attrs, "yearsCost", 0)]
              ELSE acc, LAMBDA acc1 :
         With(simulate_visit(acc1.s, G.attrs[v], rules, EmptyDict, acc1.heap,
                             <<0, 0, 0>>), LAMBDA vis :
             path_loop([acc1 EXCEPT !.s = vis.state, !.heap = vis.heap],
                       path, G, rules, i + 1))))))

\* simulate_path(state, path, G, rules); heap is the heap of generators
simulate_path(state, path, G, rules, heap) ==
    With(clone(state), LAMBDA s0 :
    With(s0.node = None /\ path # <<>>, LAMBDA place :
    With(IF place THEN [s0 EXCEPT !.node = path[1]] ELSE s0, LAMBDA s :
    With(path_loop([s |-> s, sum_ly |-> 0, sum_years |-> 0, heap |-> heap],
                   path, G, rules, IF place THEN 2 ELSE 1), LAMBDA acc :
        [returned |-> TRUE, state |-> acc.s, sum_ly |-> acc.sum_ly,
         sum_years |-> acc.sum_years, heap |-> acc.heap]))))

NoPathCall == [pc |-> "none"]
NoPathResult == [returned |-> FALSE]
PathIdle == path_call = NoPathCall /\ path_out = NoPathResult

GraphIdle == graph_model = NewGraphModel /\ graph_op = [op |-> "idle", raised |-> ""]
RouteIdle ==
    /\ route_G = NoGraph
    /\ route = [op |-> "idle", source |-> None, target |-> None, result |-> NoRoute]

BeamIdle ==
    /\ beam_call = [pc |-> "idle"]
    /\ beam_loc = NoLocals
    /\ beam_ret = NoReturn

SimInit ==
    /\ GraphIdle
    /\ RouteIdle
    /\ BeamIdle
    /\ ParseIdle
    /\ HandlerIdle
    /\ PathIdle
    /\ \/ burro \in StartStates /\ rngs = <<>>
       \/ burro \in BoundStartStates /\ rngs = BoundHeap
    /\ prev = burro
    /\ input_after = burro
    /\ args = NoArgs
    /\ nvisits = 0
    /\ twin = [burro |-> burro, events |-> <<>>, rngs |-> rngs, seeded |-> TRUE]
    /\ events = <<>>
    /\ lastOp = "init"
    /\ nsteps = 0

Travel ==
    /\ nsteps < MaxSteps
    /\ \E edge_attrs \in EdgeSet, rules \in RulesSet \cup {RulesYearsCost} :
       \E res \in {simulate_travel(burro, edge_attrs, rules)} :
       \E res2 \in {simulate_travel(twin.burro, edge_attrs, rules)} :
             /\ burro' = res.state
             /\ events' = res.events
             /\ input_after' = input_after_call(burro, res.state)
             /\ args' = [NoArgs EXCEPT !.edge_attrs = edge_attrs, !.rules = rules]
             /\ twin' = [twin EXCEPT !.burro = res2.state, !.events = res2.events]
    /\ prev' = burro
    /\ lastOp' = "travel"
    /\ nsteps' = nsteps + 1
    /\ UNCHANGED <<rngs, nvisits, exceptSim>>

\* The visit draws from a fresh unseeded generator: its values are free.
Unseeded(s, rules) == s.rng = None /\ Get(rules, "rng_seed", None) = None

\* The caller places the traveler on the node, then visits it.  The twin run
\* makes the same call; what an unseeded generator would yield there is free.
Visit ==
    /\ nsteps < MaxSteps
    /\ \E n \in NodeSet, star_attrs \in StarSet, rules \in RulesSet \cup {RulesHyper},
          uo \in OverridesSet :
       \E ext \in (IF Unseeded(burro, rules) THEN ExtSet ELSE {<<0, 0, 0>>}),
          ext2 \in TwinExtSet :
       \E arrived \in {[burro EXCEPT !.node = n]} :
       \E res \in {simulate_visit(arrived, star_attrs, rules, uo, rngs, ext)} :
       \E res2 \in {simulate_visit([twin.burro EXCEPT !.node = n], star_attrs, rules,
                                    uo, twin.rngs, ext2)} :
             /\ burro' = res.state
             /\ events' = res.events
             /\ rngs' = res.heap
             /\ prev' = arrived
             /\ input_after' = input_after_call(arrived, res.state)
             /\ args' = [NoArgs EXCEPT !.star_attrs = star_attrs, !.rules = rules,
                                       !.r = res.r,
                                       !.before_hypergiant = res.before_hypergiant]
             /\ twin' = [burro |-> res2.state, events |-> res2.events,
                         rngs |-> res2.heap,
                         seeded |-> twin.seeded /\ ~Unseeded(burro, rules)]
    /\ lastOp' = "visit"
    /\ nsteps' = nsteps + 1
    /\ nvisits' = nvisits + 1
    /\ UNCHANGED exceptSim

SimNext == Travel \/ Visit

SpecSim == SimInit /\ [][SimNext]_vars

-----------------------------------------------------------------------------
(* Claims about the survival state and the effect engine *)

HasEvent(evs, tag) == \E i \in DOMAIN evs : evs[i][1] = tag

\* C1: after every chain of simulate_travel / simulate_visit calls, under any
\* rules bundle (the empty one included), the resulting state has
\* 0 <= energyPercent <= 100, foodKg >= 0 and lifeYearsLeft >= 0.
C1_ResourcesInRange ==
    /\ 0 <= burro.energy_pct /\ burro.energy_pct <= 100 * Scale
    /\ burro.grass_kg >= 0
    /\ burro.life_years_left >= 0

\* C2: death is terminal: a call that received a state with healthTier = Dead
\* returns a state with healthTier = Dead.
C2_DeathIsTerminal ==
    (lastOp \in {"travel", "visit"} /\ prev.health = "Dead") => burro.health = "Dead"

\* C3: after every simulate_travel or simulate_visit call, a resulting state
\* with lifeYearsLeft <= 0 or energyPercent <= 0 has healthTier = Dead and the
\* returned events contain the terminal death event.
C3_DeathIsObserved ==
    (lastOp \in {"travel", "visit"}
        /\ (burro.life_years_left <= 0 \/ burro.energy_pct <= 0))
    => /\ burro.health = "Dead"
       /\ HasEvent(events, "DIED_DURING_TRAVEL") \/ HasEvent(events, "DIED_DURING_VISIT")


-----------------------------------------------------------------------------
(* The graph store driven by its callers *)

MaxStar == 3
StarIds == 1..MaxStar
DistanceSet == {Scale}
\* BuildFromParserOutput: yearsCost = distanceLy * distanceFactor (0.05)
YearsCostOf(d) == Mul(d, Scale \div 20)

SimIdle ==
    /\ burro = BurroState(None, 0, "Excellent", 0, 0, None)
    /\ prev = burro
    /\ input_after = burro
    /\ args = NoArgs
    /\ nvisits = 0
    /\ twin = [burro |-> burro, events |-> <<>>, rngs |-> <<>>, seeded |-> TRUE]
    /\ events = <<>>
    /\ lastOp = "idle"
    /\ nsteps = 0
    /\ rngs = <<>>

GraphInit ==
    /\ SimIdle
    /\ RouteIdle
    /\ BeamIdle
    /\ ParseIdle
    /\ HandlerIdle
    /\ PathIdle
    /\ graph_model = NewGraphModel
    /\ graph_op = [op |-> "init", raised |-> ""]

DoAddStar ==
    /\ \E id \in StarIds :
         LET res == AddStar(graph_model, Star(id))
         IN  /\ graph_model' = res.gm
             /\ graph_op' = [op |-> "AddStar", raised |-> res.raised]
    /\ UNCHANGED exceptGraph

DoAddEdge ==
    /\ \E u \in StarIds, v \in StarIds, d \in DistanceSet, blocked \in BOOLEAN :
         /\ u < v
         /\ graph_model' = AddEdge(graph_model, Edge(u, v, d, YearsCostOf(d), blocked))
    /\ graph_op' = [op |-> "AddEdge", raised |-> ""]
    /\ UNCHANGED exceptGraph

DoSetEdgeBlocked ==
    /\ \E u \in StarIds, v \in StarIds, blocked \in BOOLEAN :
         graph_model' = SetEdgeBlocked(graph_model, u, v, blocked)
    /\ graph_op' = [op |-> "SetEdgeBlocked", raised |-> ""]
    /\ UNCHANGED exceptGraph

DoToggleEdgeBlocked ==
    /\ \E u \in StarIds, v \in StarIds :
         LET res == ToggleEdgeBlocked(graph_model, u, v)
         IN  /\ graph_model' = res.gm
             /\ graph_op' = [op |-> "ToggleEdgeBlocked", raised |-> res.raised]
    /\ UNCHANGED exceptGraph

DoToNetworkX ==
    /\ LET res == ToNetworkX(graph_model)
       IN  /\ graph_model' = res.gm
           /\ graph_op' = [op |-> "ToNetworkX", raised |-> res.raised]
    /\ UNCHANGED exceptGraph

GraphNext ==
    \/ DoAddStar
    \/ DoAddEdge
    \/ DoSetEdgeBlocked
    \/ DoToggleEdgeBlocked
    \/ DoToNetworkX

SpecGraph == GraphInit /\ [][GraphNext]_vars

-----------------------------------------------------------------------------
(* Claims about the graph store *)

\* the blocked flags of the model's edges, and of the view's (none without a view)
ModelFlags(gm) == [k \in DOMAIN gm.edges |-> gm.edges[k].blocked]
ViewFlags(gm) == [k \in DOMAIN gm.nx.edges |-> gm.nx.edges[k].blocked]
\* the edges that survive filtering the view
FilteredEdges(gm) == DOMAIN filtered_graph_nx(gm.nx).edges
\* ids that name stars and one that names none
ProbeIds == StarIds \cup {MaxStar + 1}

\* C7: for every existing edge (u,v), in either argument order, the first
\* ToggleEdgeBlocked flips that edge's flag and no other one, in the model and in
\* the view; the second call restores the model's flags, the view's flags and
\* the edge's membership in the filtered view.
C7_ToggleIsInvolutive ==
    \A u \in StarIds, v \in StarIds :
        HasEdge(graph_model, u, v) =>
            LET k == _edgeKey(u, v)
                once == ToggleEdgeBlocked(graph_model, u, v)
                twice == ToggleEdgeBlocked(once.gm, u, v)
            IN  /\ once.raised = "" /\ twice.raised = ""
                /\ ModelFlags(once.gm) =
                       [ModelFlags(graph_model) EXCEPT ![k] = ~graph_model.edges[k].blocked]
                /\ once.ret = ~graph_model.edges[k].blocked
                /\ \A j \in DOMAIN graph_model.nx.edges :
                       j # k => ViewFlags(once.gm)[j] = ViewFlags(graph_model)[j]
                /\ ModelFlags(twice.gm) = ModelFlags(graph_model)
                /\ ViewFlags(twice.gm) = ViewFlags(graph_model)
                /\ (k \in FilteredEdges(twice.gm)) = (k \in FilteredEdges(graph_model))
                /\ (k \in DOMAIN graph_model.nx.edges =>
                       (k \in FilteredEdges(once.gm)) # (k \in FilteredEdges(graph_model)))

\* a toggle has just succeeded on a store that has a view, a blocked edge and
\* an unblocked one
C7_Witness ==
    /\ graph_op.op = "ToggleEdgeBlocked" /\ graph_op.raised = ""
    /\ graph_model.nx.exists
    /\ \E j \in DOMAIN graph_model.nx.edges, k \in DOMAIN graph_model.nx.edges :
           graph_model.edges[j].blocked /\ ~graph_model.edges[k].blocked

\* C8: ToggleEdgeBlocked on a pair with no edge raises KeyError and leaves the
\* store, hence every blocked flag of the model and of the view, as it was.
C8_ToggleMissingEdgeFails ==
    \A u \in ProbeIds, v \in ProbeIds :
        ~HasEdge(graph_model, u, v) =>
            LET res == ToggleEdgeBlocked(graph_model, u, v)
            IN  /\ res.raised = "KeyError"
                /\ ModelFlags(res.gm) = ModelFlags(graph_model)
                /\ ViewFlags(res.gm) = ViewFlags(graph_model)

\* a toggle has just failed on a store that has a view holding a blocked edge
C8_Witness ==
    /\ graph_op.op = "ToggleEdgeBlocked" /\ graph_op.raised = "KeyError"
    /\ graph_model.nx.exists
    /\ \E k \in DOMAIN graph_model.nx.edges : graph_model.edges[k].blocked

-----------------------------------------------------------------------------
(* The route query of the event handler over the shared view *)

MaxWeight == 3
RouteNodes == {1, 2, 3}
\* an id that names no node of the view
AbsentNode == Cardinality(RouteNodes) + 1
RouteKeys == {k \in RouteNodes \X RouteNodes : k[1] < k[2]}
\* per pair: no edge, a blocked edge, or an open edge of 0..MaxWeight light-years
RouteEdgeChoices ==
    {[present |-> FALSE, distanceLy |-> 0, blocked |-> FALSE],
     [present |-> TRUE, distanceLy |-> Scale, blocked |-> TRUE]}
    \cup {[present |-> TRUE, distanceLy |-> w * Scale, blocked |-> FALSE] : w \in 0..MaxWeight}

RouteGraph(choice) ==
    NxGraph(RouteNodes,
            [k \in {x \in RouteKeys : choice[x].present} |->
                [distanceLy |-> choice[k].distanceLy,
                 yearsCost |-> YearsCostOf(choice[k].distanceLy),
                 blocked |-> choice[k].blocked]])

RouteInit ==
    /\ SimIdle
    /\ GraphIdle
    /\ BeamIdle
    /\ ParseIdle
    /\ HandlerIdle
    /\ PathIdle
    /\ \E choice \in [RouteKeys -> RouteEdgeChoices] : route_G = RouteGraph(choice)
    /\ route = [op |-> "init", source |-> None, target |-> None, result |-> NoRoute]

\* _worker: Gf = filtered_graph_nx(self.G); res = shortest_path_dijkstra(Gf, origin, target)
RouteQuery ==
    /\ \E origin \in RouteNodes \cup {AbsentNode}, target \in RouteNodes \cup {AbsentNode} :
       \E Gf \in {filtered_graph_nx(route_G)} :
             route' = [op |-> "query", source |-> origin, target |-> target,
                       result |-> shortest_path_dijkstra(Gf, origin, target, "yearsCost")]
    /\ UNCHANGED route_G
    /\ UNCHANGED exceptRoute

RouteNext == RouteQuery

SpecRoute == RouteInit /\ [][RouteNext]_vars

-----------------------------------------------------------------------------
(* Claims about the route query *)

\* the simple paths from s to t along edges of G that are not blocked
OpenPaths(G, s, t) ==
    {p \in UNION {[1..n -> G.nodes] : n \in 1..Cardinality(G.nodes)} :
        /\ p[1] = s /\ p[Len(p)] = t
        /\ \A i \in 1..Len(p), j \in 1..Len(p) : i # j => p[i] # p[j]
        /\ \A i \in 1..(Len(p) - 1) :
               /\ nx_has_edge(G, p[i], p[i + 1])
               /\ ~G.edges[_edgeKey(p[i], p[i + 1])].blocked}

RECURSIVE SumYearsCost(_, _, _)
SumYearsCost(G, p, i) ==
    IF i >= Len(p) THEN 0
    ELSE G.edges[_edgeKey(p[i], p[i + 1])].yearsCost + SumYearsCost(G, p, i + 1)

\* C4: when some unblocked path joins the queried endpoints, the query returns
\* one of those paths, the yearsCost of its edges sums to the reported total,
\* and no unblocked simple path between the endpoints costs less.
C4_ShortestPathIsOptimal ==
    (route.op = "query" /\ OpenPaths(route_G, route.source, route.target) # {}) =>
        /\ route.result.found
        /\ route.result.path \in OpenPaths(route_G, route.source, route.target)
        /\ SumYearsCost(route_G, route.result.path, 1) = route.result.total
        /\ \A p \in OpenPaths(route_G, route.source, route.target) :
               SumYearsCost(route_G, p, 1) >= route.result.total

\* a two-hop route of positive cost was returned although a dearer open edge
\* joins the endpoints directly
C4_Witness ==
    /\ route.op = "query" /\ route.result.found /\ Len(route.result.path) = 3
    /\ nx_has_edge(route_G, route.source, route.target)
    /\ ~route_G.edges[_edgeKey(route.source, route.target)].blocked
    /\ route_G.edges[_edgeKey(route.source, route.target)].yearsCost > route.result.total
    /\ route.result.total > 0

\* C5: a query between two present nodes that no unblocked path joins returns
\* None: the exception met is one shortest_path_dijkstra catches, and the
\* result is not a found route; a found route never has an empty path.
C5_NoPathIsExplicit ==
    route.op = "query" =>
        /\ shortest_path_raised(filtered_graph_nx(route_G), route.source, route.target,
                                "yearsCost") \in {"", "NetworkXNoPath", "NodeNotFound"}
        /\ route.result.found => Len(route.result.path) >= 1
        /\ (/\ route.source \in route_G.nodes /\ route.target \in route_G.nodes
            /\ OpenPaths(route_G, route.source, route.target) = {})
           => route.result = NoRoute

\* the queried endpoints are joined by a blocked edge, and by a blocked edge
\* followed by an open one, and the query returned None
C5_Witness ==
    /\ route.op = "query" /\ route.result = NoRoute
    /\ route.source \in route_G.nodes /\ route.target \in route_G.nodes
    /\ nx_has_edge(route_G, route.source, route.target)
    /\ \E n \in route_G.nodes \ {route.source, route.target} :
           /\ nx_has_edge(route_G, route.source, n) /\ nx_has_edge(route_G, n, route.target)
           /\ route_G.edges[_edgeKey(route.source, n)].blocked
           /\ ~route_G.edges[_edgeKey(n, route.target)].blocked

\* C6: the value returned for disconnected endpoints (networkx raised
\* NetworkXNoPath) differs from the value returned for an absent endpoint
\* (networkx raised NodeNotFound).
C6_FailuresDistinguishable ==
    LET Gf == filtered_graph_nx(route_G)
        ids == RouteNodes \cup {AbsentNode}
    IN  (/\ route.op = "query"
         /\ shortest_path_raised(Gf, route.source, route.target, "yearsCost")
                = "NetworkXNoPath")
        => \A s \in ids, e \in ids :
               shortest_path_raised(Gf, s, e, "yearsCost") = "NodeNotFound"
                   => shortest_path_dijkstra(Gf, s, e, "yearsCost") # route.result

-----------------------------------------------------------------------------
(* beam_search called on a small star map *)

MaxBeamWidth == 2
MaxDepth == 3
BeamNodes == {1, 2, 3, 4}
\* the maps: a line, a fork, a triangle beside a lone star, a ring
BeamShapes ==
    {{<<1, 2>>, <<2, 3>>, <<3, 4>>},
     {<<1, 2>>, <<1, 3>>, <<2, 4>>},
     {<<1, 2>>, <<1, 3>>, <<2, 3>>},
     {<<1, 2>>, <<2, 3>>, <<3, 4>>, <<1, 4>>}}
\* every edge short, or the edges at star 3 long
BeamLengths ==
    {[k \in BeamNodes \X BeamNodes |-> EdgeShort],
     [k \in BeamNodes \X BeamNodes |-> IF 3 \in {k[1], k[2]} THEN EdgeLong ELSE EdgeShort]}
BeamStars ==
    {[n \in BeamNodes |-> CASE n = 2 -> s2 [] n = 3 -> s3 [] n = 4 -> s4
                            [] OTHER -> StarPlain] :
        s2 \in {StarPlain, StarResearch}, s3 \in {StarPlain, StarHyper},
        s4 \in {StarPlain, StarEffects}}
BeamGraphs ==
    {[exists |-> TRUE, nodes |-> BeamNodes,
      edges |-> [k \in shape |-> len[k]], attrs |-> stars] :
        shape \in BeamShapes, len \in BeamLengths, stars \in BeamStars}
\* starts at star 1 with little or ample life and energy; a start at star 2;
\* starts without energy, with the energy one long edge costs, and with health Dead
BeamStartStates ==
    {BurroState(1, life, "Excellent", e, 2 * Scale, None) :
        life \in {0, Scale \div 2, 20 * Scale}, e \in {40 * Scale, 100 * Scale}}
    \cup {BurroState(2, 20 * Scale, "Excellent", 100 * Scale, 2 * Scale, None),
          BurroState(1, 20 * Scale, "Excellent", 0, 2 * Scale, None),
          BurroState(1, 20 * Scale, "Excellent", 10 * Scale, 2 * Scale, None),
          BurroState(1, 20 * Scale, "Dead", 100 * Scale, 2 * Scale, None)}
\* bundles under which a visit does not depend on an unseeded generator
BeamRulesSet == {RulesEmpty, RulesDefault, RulesSeeded}

\* test_beam_search_simple_trace: four stars in a line, one light-year apart,
\* with the attributes the parser fills in (none, or the ends of its ranges)
TraceBeamWidth == 6
TraceMaxDepth == 10
LineShape == {<<1, 2>>, <<2, 3>>, <<3, 4>>}
StarParsedLow ==
    ("investigation_years" :> Scale) @@ ("time_per_kg_years" :> Scale)
    @@ ("invest_energy_per_year_pct" :> Scale \div 20)
StarParsedHigh ==
    ("investigation_years" :> 5 * Scale) @@ ("time_per_kg_years" :> 5 * Scale)
    @@ ("invest_energy_per_year_pct" :> Scale \div 2)
TraceStarKinds == {StarPlain, StarParsedLow, StarParsedHigh}
TraceGraphs ==
    {[exists |-> TRUE, nodes |-> BeamNodes,
      edges |-> [k \in LineShape |-> EdgeShort], attrs |-> [n \in BeamNodes |-> s]] :
        s \in TraceStarKinds}
\* the rules of the test: no research outcomes (p_illness = p_success = 0)
RulesBeamTest ==
    ("energy.energyLossPerInvestigationYearPercent" :> Scale \div 5) @@ RulesDefault
TraceStartStates ==
    {BurroState(1, life, h, 100 * Scale, g, None) :
        life \in {20 * Scale, 100 * Scale}, h \in {"Excellent", "Good"},
        g \in {2 * Scale, 10 * Scale}}
TraceCalls ==
    {[pc |-> "called", start_state |-> start_state, Gnx |-> Gnx, rules |-> rules,
      beam_width |-> beam_width, max_depth |-> max_depth, avoid_revisit |-> TRUE,
      order |-> 0, heap |-> <<>>] :
        start_state \in TraceStartStates, Gnx \in TraceGraphs,
        rules \in {RulesDefault, RulesBeamTest},
        beam_width \in {1, TraceBeamWidth},
        max_depth \in {Cardinality(LineShape), TraceMaxDepth}}

BeamCalls ==
    {[pc |-> "called", start_state |-> start_state, Gnx |-> Gnx, rules |-> rules,
      beam_width |-> beam_width, max_depth |-> max_depth,
      avoid_revisit |-> avoid_revisit, order |-> 0, heap |-> <<>>] :
        start_state \in BeamStartStates, Gnx \in BeamGraphs, rules \in BeamRulesSet,
        beam_width \in 1..MaxBeamWidth, max_depth \in 0..MaxDepth,
        avoid_revisit \in BOOLEAN}

BeamInit ==
    /\ SimIdle
    /\ GraphIdle
    /\ RouteIdle
    /\ ParseIdle
    /\ HandlerIdle
    /\ PathIdle
    /\ beam_call \in BeamCalls \cup TraceCalls
    /\ beam_loc = NoLocals
    /\ beam_ret = NoReturn

BeamEnter ==
    /\ beam_call.pc = "called"
    /\ \E res \in {beam_enter(beam_call)} :
           /\ beam_call' = [res.call EXCEPT !.pc = "running"]
           /\ beam_loc' = res.loc
           /\ beam_ret' = res.ret
    /\ UNCHANGED exceptBeam

BeamRound ==
    /\ beam_loc.pc = "loop"
    /\ \E res \in {beam_round(beam_call, beam_loc)} :
           /\ beam_loc' = res.loc
           /\ beam_ret' = res.ret
    /\ UNCHANGED beam_call
    /\ UNCHANGED exceptBeam

BeamNext == BeamEnter \/ BeamRound

SpecBeam == BeamInit /\ [][BeamNext]_vars

\* beam_search is one sequential call: once called it runs its loop to the end
SpecBeamLive == BeamInit /\ [][BeamNext]_vars /\ WF_vars(BeamNext)

-----------------------------------------------------------------------------
(* Loading a scenario: the parser, then the graph *)

MaxEdgesIn == 2
ParseStarIds == 1..3
\* an edge joins two different stars, in either direction
EdgesIn == {[u |-> k[1], v |-> k[2], blocked |-> b] :
               k \in {p \in ParseStarIds \X ParseStarIds : p[1] # p[2]}, b \in BOOLEAN}
EdgeListsIn == UNION {[1..n -> EdgesIn] : n \in 0..MaxEdgesIn}
\* meta.simulationSeed of the scenarios in the tests
SimulationSeed == 42
\* what the input says about star 1: nothing, its research years, or all three
\* simulation attributes; the other stars give none
StarInputs ==
    {EmptyDict,
     ("investigation_years" :> 2 * Scale),
     ("investigation_years" :> 2 * Scale) @@ ("time_per_kg_years" :> 3 * Scale)
         @@ ("invest_energy_per_year_pct" :> Scale \div 10)}
ScenarioSet ==
    {[stars |-> stars, edges |-> edges, enforceBidirectional |-> eb,
      repairMissingInverseEdge |-> rm,
      star_input |-> [sid \in stars |-> IF sid = 1 THEN given ELSE EmptyDict],
      seed |-> seed] :
        stars \in {{1, 2}, ParseStarIds}, edges \in EdgeListsIn,
        eb \in BOOLEAN, rm \in BOOLEAN, given \in StarInputs,
        seed \in {SimulationSeed, TestSeed}}

ParseInit ==
    /\ SimIdle
    /\ GraphIdle
    /\ RouteIdle
    /\ BeamIdle
    /\ HandlerIdle
    /\ PathIdle
    /\ parse_data \in ScenarioSet
    /\ parse_out = NoOutput
    /\ parse_graph = NoBuild

DoParse ==
    /\ parse_out.pc = "none"
    /\ parse_out' = BuildParserOutputFromJson(parse_data)
    /\ UNCHANGED <<parse_data, parse_graph, exceptParse>>

\* universe.py 32-33: populate_star_defaults on the attribute dicts of the
\* nodes, here nodes that carry what the input gave
DoPopulateStarDefaults ==
    /\ parse_out.pc = "none"
    /\ parse_out' = [NoOutput EXCEPT
                        !.pc = "populated", !.stars = parse_data.stars,
                        !.star_attrs = populate_star_defaults(parse_data.star_input,
                                                              parse_data.seed)]
    /\ UNCHANGED <<parse_data, parse_graph, exceptParse>>

\* LoadGraphFromJson, after the parser returned without errors
DoBuildFromParserOutput ==
    /\ parse_out.pc = "parsed"
    /\ parse_graph.op = "none"
    /\ parse_graph' = BuildFromParserOutput(parse_out)
    /\ UNCHANGED <<parse_data, parse_out, exceptParse>>

DoGraphFromParsed ==
    /\ parse_out.pc = "parsed"
    /\ parse_graph.op = "none"
    /\ parse_graph' = _graph_from_parsed(parse_out)
    /\ UNCHANGED <<parse_data, parse_out, exceptParse>>

ParseNext ==
    DoParse \/ DoPopulateStarDefaults \/ DoBuildFromParserOutput \/ DoGraphFromParsed

SpecParse == ParseInit /\ [][ParseNext]_vars

-----------------------------------------------------------------------------
(* The interaction controller with its worker threads *)

MaxWorkers == 1
HandlerFields == DOMAIN NewEventHandler

HandlerInit ==
    /\ SimIdle
    /\ GraphIdle
    /\ RouteIdle
    /\ BeamIdle
    /\ ParseIdle
    /\ PathIdle
    /\ handler = NewEventHandler
    /\ handler_G = FixtureGraph
    /\ handler_op = [name |-> "init", changed |-> {}]
    /\ workers = <<>>

Called(name) == handler_op' = [name |-> name, changed |-> {}]

DoToggleBlockMode ==
    /\ handler' = toggle_block_mode(handler)
    /\ Called("toggle_block_mode")
    /\ UNCHANGED <<handler_G, workers, exceptHandler>>

DoStartRouteSelection ==
    /\ handler' = start_route_selection(handler)
    /\ Called("start_route_selection")
    /\ UNCHANGED <<handler_G, workers, exceptHandler>>

DoResetMode ==
    /\ \E h1 \in {reset_mode(handler)} :
         /\ handler' = h1
         /\ handler_op' = [name |-> "reset_mode",
                           changed |-> {f \in HandlerFields : h1[f] # handler[f]}]
    /\ UNCHANGED <<handler_G, workers, exceptHandler>>

DoCloseForm ==
    /\ handler.form = "shown"
    /\ handler' = close_form(handler)
    /\ Called("close_form")
    /\ UNCHANGED <<handler_G, workers, exceptHandler>>

DoFinalizeRouteCalculation ==
    /\ handler.form = "shown"
    /\ handler' = finalize_route_calculation(handler)
    /\ Called("finalize_route_calculation")
    /\ UNCHANGED <<handler_G, workers, exceptHandler>>

\* on_click in block mode, on an edge
DoClickEdge ==
    /\ handler.mode = MODE_BLOCK
    /\ \E k \in DOMAIN handler_G.edges :
       \E res \in {_handle_block_click(handler, handler_G, k)} :
          /\ handler' = res.h
          /\ handler_G' = res.G
    /\ Called("on_click")
    /\ UNCHANGED <<workers, exceptHandler>>

\* on_click in route selection, on a node
DoClickNode ==
    /\ handler.mode = MODE_ROUTE_SELECT
    /\ handler.route_selection_stage \in {1, 2}
    /\ \E node \in handler_G.nodes :
       \E res \in {on_click_node(handler, node)} :
          /\ res.start => Len(workers) < MaxWorkers
          /\ handler' = res.h
          /\ workers' = IF res.start
                        THEN Append(workers, Worker(res.h.route_origin, res.h.route_target))
                        ELSE workers
    /\ Called("on_click")
    /\ UNCHANGED <<handler_G, exceptHandler>>

\* one step of worker thread i
WorkerStep ==
    /\ \E i \in 1..Len(workers) :
       \E w \in {workers[i]} :
          CASE w.pc = "start" ->
                 /\ handler' = [handler EXCEPT !._route_worker_active = TRUE]
                 /\ workers' = [workers EXCEPT ![i].pc = "plan"]
                 /\ UNCHANGED handler_G
            [] w.pc = "plan" ->
                 /\ workers' = [workers EXCEPT
                        ![i].pc = "write",
                        ![i].res = shortest_path_dijkstra(filtered_graph_nx(handler_G),
                                                          w.origin, w.target, "yearsCost")]
                 /\ UNCHANGED <<handler, handler_G>>
            [] w.pc = "write" ->
                 /\ handler' = worker_write(handler, handler_G, w)
                 /\ workers' = [workers EXCEPT ![i].pc = "release"]
                 /\ UNCHANGED handler_G
            [] w.pc = "release" ->
                 /\ handler' = worker_release(handler)
                 /\ workers' = [workers EXCEPT ![i].pc = "cleanup"]
                 /\ UNCHANGED handler_G
            [] w.pc = "cleanup" ->
                 /\ handler' = worker_cleanup(handler)
                 /\ workers' = [j \in 1..(Len(workers) - 1) |->
                                   IF j < i THEN workers[j] ELSE workers[j + 1]]
                 /\ UNCHANGED handler_G
    /\ Called("worker")
    /\ UNCHANGED exceptHandler

HandlerNext ==
    \/ DoToggleBlockMode
    \/ DoStartRouteSelection
    \/ DoResetMode
    \/ DoCloseForm
    \/ DoFinalizeRouteCalculation
    \/ DoClickEdge
    \/ DoClickNode
    \/ WorkerStep

SpecHandler == HandlerInit /\ [][HandlerNext]_vars

-----------------------------------------------------------------------------
(* Simulating a confirmed route: finalize_route_calculation hands the proposed
   path, the handler's graph and the rules to simulate_path *)

\* the stars in a line, with the lengths and the attributes of the beam maps
PathGraphs ==
    {[exists |-> TRUE, nodes |-> BeamNodes,
      edges |-> [k \in LineShape |-> len[k]], attrs |-> stars] :
        len \in BeamLengths, stars \in BeamStars}
\* routes along the line, from its first star or from its second
PathRoutes == {<<1>>, <<1, 2>>, <<1, 2, 3>>, <<1, 2, 3, 4>>, <<2, 3>>}
\* the traveler before it is placed (node None) and at star 1
PathStartStates ==
    {BurroState(n, life, "Excellent", e, 2 * Scale, None) :
        n \in {None, 1}, life \in {Scale \div 2, 20 * Scale},
        e \in {40 * Scale, 100 * Scale}}
PathRulesSet == BeamRulesSet \cup {RulesYearsCost}

PathInit ==
    /\ SimIdle
    /\ GraphIdle
    /\ RouteIdle
    /\ BeamIdle
    /\ ParseIdle
    /\ HandlerIdle
    /\ path_call \in {[pc |-> "called", state |-> state, path |-> path, G |-> G,
                        rules |-> rules] :
                          state \in PathStartStates, path \in PathRoutes,
                          G \in PathGraphs, rules \in PathRulesSet}
    /\ path_out = NoPathResult

DoSimulatePath ==
    /\ path_call.pc = "called"
    /\ path_out' = simulate_path(path_call.state, path_call.path, path_call.G,
                                 path_call.rules, <<>>)
    /\ path_call' = [path_call EXCEPT !.pc = "returned"]
    /\ UNCHANGED exceptPath

PathNext == DoSimulatePath

SpecPath == PathInit /\ [][PathNext]_vars

\* C10: with avoid_revisit, the returned path has as many distinct nodes as
\* meta.visited_count says.
C10_PathMatchesVisitedCount ==
    (beam_ret.returned /\ beam_call.avoid_revisit) =>
        Cardinality({beam_ret.path[i] : i \in 1..Len(beam_ret.path)})
            = beam_ret.meta.visited_count

\* C11: every non-empty path beam_search returns has the node of the start
\* state it was given as its first element.
C11_PathStartsAtStart ==
    (beam_ret.returned /\ beam_ret.path # <<>>) =>
        beam_ret.path[1] = beam_call.start_state.node

\* a path of several stars was returned for a start at star 2
C11_Witness ==
    /\ beam_ret.returned
    /\ Len(beam_ret.path) > 2
    /\ beam_call.start_state.node = 2
    /\ beam_ret.path[1] = 2

\* C12: a call whose start state is already dead (lifeYearsLeft <= 0, or
\* energyPercent <= 0, or healthTier = Dead) returns an empty path with
\* reason_stop = start_dead and has made no expansion.
C12_DeadStartStops ==
    (beam_ret.returned /\ is_dead(beam_call.start_state)) =>
        /\ beam_ret.path = <<>>
        /\ beam_ret.meta.reason_stop = "start_dead"
        /\ beam_loc.expansions = 0

\* C14: whatever the stop reason (start_dead included), the meta record of a
\* return holds the final state, the visited count, the expansion count, the
\* depth reached and the stop-reason tag.
C14_MetaIsComplete ==
    beam_ret.returned =>
        {"final_state", "visited_count", "expansions", "depth_reached", "reason_stop"}
            \subseteq DOMAIN beam_ret.meta

\* C13: the final_state returned has the lexicographically greatest score
\* (visitedCount, lifeYearsLeft, energyPercent) among the start state and the
\* states retained in the beam; stated of the beam of the last round, which
\* the locals still hold when the call returns.
C13_FinalStateIsBest ==
    (beam_ret.returned /\ beam_ret.meta.reason_stop # "start_dead") =>
        /\ ~score_gt(_score_for_sort(beam_call.start_state),
                     _score_for_sort(beam_ret.meta.final_state))
        /\ \A i \in 1..Len(beam_loc.beam) :
               ~score_gt(_score_for_sort(beam_loc.beam[i].state),
                         _score_for_sort(beam_ret.meta.final_state))

\* the scenario of the trace test: stars 1-2-3-4 in a line one light-year
\* apart, distanceLyToYearsFactor 0.05, no research outcomes, a start at star 1
\* with ample life, energy and grass, and depth enough to reach the far end
InLineScenario ==
    /\ beam_call.pc = "running"
    /\ beam_call.Gnx.edges = [k \in LineShape |-> EdgeShort]
    /\ \A n \in BeamNodes : beam_call.Gnx.attrs[n] \in TraceStarKinds
    /\ Get(beam_call.rules, "timeAndLife.distanceLyToYearsFactor", Scale \div 20)
           = Scale \div 20
    /\ Get(beam_call.rules, "timeAndLife.investigation.p_illness", 0) = 0
    /\ Get(beam_call.rules, "timeAndLife.investigation.p_success", 0) = 0
    /\ beam_call.start_state.node = 1
    /\ beam_call.start_state.health # "Dead"
    /\ beam_call.start_state.life_years_left >= 20 * Scale
    /\ beam_call.start_state.energy_pct = 100 * Scale
    /\ beam_call.start_state.grass_kg >= 2 * Scale
    /\ beam_call.avoid_revisit
    /\ beam_call.max_depth >= Cardinality(LineShape)

\* C15: in the line scenario beam_search returns the path [1,2,3,4] with
\* visited count 4, and reason_stop is max_depth_reached or no_candidates,
\* never all_dead.
C15_LineIsWalked ==
    (InLineScenario /\ beam_ret.returned) =>
        /\ beam_ret.path = <<1, 2, 3, 4>>
        /\ beam_ret.meta.visited_count = Cardinality(BeamNodes)
        /\ beam_ret.meta.reason_stop \in {"max_depth_reached", "no_candidates"}

\* the call of the test (width 6, depth 10, a Good start with 100 years and
\* 10 kg) returned after running out of neighbours
C15_Witness ==
    /\ InLineScenario /\ beam_ret.returned
    /\ beam_call.beam_width = TraceBeamWidth /\ beam_call.max_depth = TraceMaxDepth
    /\ beam_call.rules = RulesBeamTest
    /\ beam_call.start_state.health = "Good"
    /\ beam_call.start_state.life_years_left = 100 * Scale
    /\ beam_call.start_state.grass_kg = 10 * Scale
    /\ beam_call.Gnx.attrs[2] = StarParsedHigh
    /\ beam_ret.path = <<1, 2, 3, 4>>
    /\ beam_ret.meta.reason_stop = "no_candidates"

-----------------------------------------------------------------------------
(* Claims about single simulate_travel / simulate_visit calls *)

C17_OneOutcomePerVisit ==
    /\ lastOp = "visit" =>
           /\ burro.event_log = Append(prev.event_log, burro.last_event)
           /\ burro.last_event.type = "investigation"
           /\ burro.last_event.outcome \in {"illness", "successful", "neutral"}
    /\ Len(burro.event_log) = nvisits

\* the second of two visits, one of a star without research years, after a
\* visit that ended in illness
C17_Witness ==
    /\ lastOp = "visit" /\ nvisits = 2
    /\ Get(args.star_attrs, "investigation_years", 0) = 0
    /\ burro.event_log[1].outcome = "illness"
    /\ burro.event_log[2].outcome = "neutral"
    /\ burro.last_event = burro.event_log[2]

\* C18: two independent runs that start from equal states bound to random
\* sources with the same seed and make the same visits produce the same
\* outcome records, the same events and the same final state.
C18_SeededRunsAgree ==
    twin.seeded =>
        /\ twin.burro = burro
        /\ twin.events = events
        /\ twin.rngs = rngs

\* two visits of a state bound to a seeded generator, with different outcomes
\* of which one is not neutral, in both runs
C18_Witness ==
    /\ twin.seeded /\ nvisits = 2
    /\ burro.rng # None
    /\ burro.event_log[1].outcome # burro.event_log[2].outcome
    /\ burro.event_log[1].outcome # "neutral"
    /\ twin.burro.event_log = burro.event_log

\* the life and energy a travel over the edge costs under the rules
TravelYearsLoss(edge_attrs, rules) ==
    IF Get(rules, "timeAndLife.useDistanceAsYearsOfLifeLoss", TRUE)
    THEN Mul(Get(edge_attrs, "distanceLy", 0),
             Get(rules, "timeAndLife.distanceLyToYearsFactor", Scale \div 20))
    ELSE Get(edge_attrs, "yearsCost", 0)
TravelEnergyLoss(edge_attrs, rules) ==
    Mul(Get(edge_attrs, "distanceLy", 0),
        Get(rules, "energy.energyConsumptionPerLyPercent", 0))

AteEvent == events[CHOOSE i \in DOMAIN events : events[i][1] = "ate"]

\* the kg the time budget of the stay allows: researchYears x maxEatFraction /
\* feedYearsPerKg
EatBudgetKg(star_attrs, rules) ==
    Div(Mul(Get(star_attrs, "investigation_years", 0),
            Get(rules, "timeAndLife.maxFractionOfStayForEating", Scale \div 2)),
        Get(star_attrs, "time_per_kg_years", Scale))

\* the gain per kg of a health tier, the Good rate when the tier is missing
GainRate(rules, health) ==
    LET eg_map == Get(rules, "energy.energyGainPerKgByHealthPercent", EmptyDict)
    IN  Get(eg_map, health, Get(eg_map, "Good", 3 * Scale))

\* C20: in simulate_visit eating happens only if energyPercent < eatThreshold
\* and foodKg > 0; the kg consumed is the time budget raised to at least
\* minKgPerEat and limited by foodKg; foodKg decreases by exactly that amount
\* (before a hypergiant multiplies what is left); energy rises by kg x the gain
\* rate of the health tier at arrival; lifeYearsLeft is not charged for eating.
C20_EatingRule ==
    (lastOp = "visit" /\ HasEvent(events, "ate")) =>
        LET kg == Min(Max(EatBudgetKg(args.star_attrs, args.rules),
                          Get(args.rules, "feeding.minKgPerEat", Scale \div 10)),
                      prev.grass_kg)
            dup == IF Get(args.star_attrs, "hypergiant", FALSE)
                   THEN Get(args.rules, "hypergiant.grassDuplicateMultiplier", 2) ELSE 1
        IN  /\ prev.energy_pct
                   < Get(args.rules, "feeding.eatOnlyIfEnergyBelowPercent", 50 * Scale)
            /\ prev.grass_kg > 0
            /\ AteEvent[2] = kg
            /\ burro.grass_kg = (prev.grass_kg - kg) * dup
            /\ AteEvent[3] = Mul(kg, GainRate(args.rules, prev.health))
            /\ (burro.last_event.outcome = "neutral"
                   /\ Get(args.star_attrs, "effects.life_delta_years", 0) = 0)
                => burro.life_years_left = prev.life_years_left

\* the second visit of a chain, at a star whose stay is too short for the
\* minimum portion: the meal was raised to that portion and cost no life
C20_Witness ==
    /\ lastOp = "visit" /\ HasEvent(events, "ate") /\ nvisits = 2
    /\ args.star_attrs = StarBrief
    /\ EatBudgetKg(args.star_attrs, args.rules) < AteEvent[2]
    /\ AteEvent[2] = Get(args.rules, "feeding.minKgPerEat", Scale \div 10)
    /\ AteEvent[3] > 0
    /\ burro.life_years_left = prev.life_years_left

\* the per-visit food cap: the star's, else the one of the feeding rules
HasFoodCap(star_attrs, rules) ==
    \/ "max_kg_consumable_per_visit_kg" \in DOMAIN star_attrs
    \/ "feeding.maxKgConsumablePerVisitKg" \in DOMAIN rules
FoodCap(star_attrs, rules) ==
    Get(star_attrs, "max_kg_consumable_per_visit_kg",
        Get(rules, "feeding.maxKgConsumablePerVisitKg", Inf))

\* C21: when a per-visit food cap is configured (on the node or in the
\* feeding rules), the kg eaten in one simulate_visit never exceeds it.
C21_FoodCapIsRespected ==
    (lastOp = "visit" /\ HasEvent(events, "ate")
        /\ HasFoodCap(args.star_attrs, args.rules))
    => AteEvent[2] <= FoodCap(args.star_attrs, args.rules)

\* what the rules configure for research outcomes
P_illness(rules) == Get(rules, "timeAndLife.investigation.p_illness", 0)
P_success(rules) == Get(rules, "timeAndLife.investigation.p_success", 0)
IllnessRange(rules) ==
    Get(rules, "timeAndLife.investigation.illness_life_loss_range", <<Scale, 3 * Scale>>)
SuccessRange(rules) ==
    Get(rules, "timeAndLife.investigation.success_life_gain_range", <<0, Scale>>)

\* the last call was a visit with research years and outcome probabilities
ResearchVisit ==
    /\ lastOp = "visit"
    /\ Get(args.star_attrs, "investigation_years", 0) > 0
    /\ P_illness(args.rules) > 0 \/ P_success(args.rules) > 0

\* C22: in a visit with researchYears > 0 and probabilities configured the
\* drawn value r selects exactly one branch: r < p_illness gives illness (life
\* decreases by a value in the illness range), p_illness <= r < p_illness +
\* p_success gives success (life increases by a value in the success range),
\* any other r gives neutral (no life or health change from the outcome).
C22_OutcomeFollowsDraw ==
    ResearchVisit =>
        LET ev == burro.last_event
            p_ill == P_illness(args.rules)
            p_succ == P_success(args.rules)
        IN  /\ args.r < p_ill =>
                   /\ ev.outcome = "illness"
                   /\ -ev.life_delta >= IllnessRange(args.rules)[1]
                   /\ -ev.life_delta <= IllnessRange(args.rules)[2]
            /\ (p_ill <= args.r /\ args.r < p_ill + p_succ) =>
                   /\ ev.outcome = "successful"
                   /\ ev.life_delta >= SuccessRange(args.rules)[1]
                   /\ ev.life_delta <= SuccessRange(args.rules)[2]
            /\ args.r >= p_ill + p_succ =>
                   /\ ev.outcome = "neutral"
                   /\ ev.life_delta = 0
                   /\ ev.health_to = ev.health_from
            /\ Get(args.star_attrs, "effects.life_delta_years", 0) = 0 =>
                   burro.life_years_left = Max(0, prev.life_years_left + ev.life_delta)

\* a draw of exactly p_illness, which gave success, after a visit whose draw
\* gave illness
C22_Witness ==
    /\ ResearchVisit /\ nvisits = 2
    /\ args.r = P_illness(args.rules)
    /\ burro.last_event.outcome = "successful"
    /\ burro.life_years_left > prev.life_years_left
    /\ burro.event_log[1].outcome = "illness"

\* The health tier one step below h (Dead stays Dead) and one step above
\* (Excellent stays Excellent), read off the order of the claim.
TierBelow(h) == HealthOrder[Min(Len(HealthOrder), IndexOf(h) + 1)]
TierAbove(h) == HealthOrder[Max(1, IndexOf(h) - 1)]

OneTierStep(ev) ==
    /\ ev.health_from \in HealthTiers
    /\ ev.health_to \in HealthTiers
    /\ ev.outcome = "illness" => ev.health_to = TierBelow(ev.health_from)
    /\ ev.outcome = "successful" => ev.health_to \in {ev.health_from, TierAbove(ev.health_from)}
    /\ ev.outcome = "neutral" => ev.health_to = ev.health_from
    /\ IndexOf(ev.health_to) - IndexOf(ev.health_from) \in {-1, 0, 1}

\* C23: every research outcome a visit records moves the health tier by at
\* most one step: an illness records health_to as the tier just below
\* health_from (Dead stays Dead), a success records health_to as health_from
\* or the tier just above it (Excellent stays Excellent), and a neutral
\* outcome records no change.
C23_HealthMovesOneTier ==
    lastOp = "visit" =>
        /\ OneTierStep(burro.last_event)
        /\ \A i \in 1..Len(burro.event_log) : OneTierStep(burro.event_log[i])

\* Witness: a second research visit whose success lifts the health by one tier
\* after a first visit whose illness lowered it by one tier.
C23_Witness ==
    /\ ResearchVisit
    /\ nvisits = 2
    /\ burro.event_log[1].outcome = "illness"
    /\ IndexOf(burro.event_log[1].health_to) = IndexOf(burro.event_log[1].health_from) + 1
    /\ burro.last_event.outcome = "successful"
    /\ IndexOf(burro.last_event.health_to) = IndexOf(burro.last_event.health_from) - 1

\* The recharge a hypergiant is configured to give, as a fraction of the
\* current energy: the rules' energyRechargeMultiplier less one, 50% by default.
ConfiguredFraction(rules) ==
    Get(rules, "hypergiant.energyRechargeMultiplier", Scale + Scale \div 2) - Scale
ConfiguredDuplication(rules) == Get(rules, "hypergiant.grassDuplicateMultiplier", 2)
Clamp100(e) == Max(0, Min(100 * Scale, e))

\* C24: a visit of a star flagged hypergiant raises the energy by the configured
\* fraction (50% by default) of the energy it has at that point, clamps it to
\* [0, 100], and multiplies the food stock by the configured factor (2 by
\* default); a visit of a star without the flag changes neither.
C24_HypergiantBonus ==
    lastOp = "visit" =>
        LET e == args.before_hypergiant.energy_pct
            g == args.before_hypergiant.grass_kg
        IN  IF Get(args.star_attrs, "hypergiant", FALSE)
            THEN /\ burro.energy_pct = Clamp100(e + Mul(e, ConfiguredFraction(args.rules)))
                 /\ burro.grass_kg = g * ConfiguredDuplication(args.rules)
            ELSE /\ burro.energy_pct = e
                 /\ burro.grass_kg = g

\* C25: with the parser's bidirectional enforcement (and repair) on, every edge
\* (u, v) of the output has an edge (v, u) in the output, every such inverse
\* carries the same blocked flag, and the graph built from the output holds,
\* for each pair, the flag of every output edge of that pair.
C25_ParsedEdgesAgree ==
    (/\ parse_out.pc = "parsed"
     /\ parse_data.enforceBidirectional
     /\ parse_data.repairMissingInverseEdge) =>
        LET E == parse_out.edges
        IN  /\ \A i \in 1..Len(E) :
                  /\ \E j \in 1..Len(E) : E[j].u = E[i].v /\ E[j].v = E[i].u
                  /\ \A j \in 1..Len(E) :
                        (E[j].u = E[i].v /\ E[j].v = E[i].u) => E[j].blocked = E[i].blocked
            /\ parse_graph.op = "_graph_from_parsed" =>
                  \A i \in 1..Len(E) :
                      parse_graph.G.edges[_edgeKey(E[i].u, E[i].v)].blocked = E[i].blocked

\* C26: a route query whose source and target are the same node of the view
\* returns the path [source] with total 0, a path of no edge, whatever edges
\* the view holds and whichever of them are blocked.
C26_SameEndpoints ==
    (route.op = "query" /\ route.source = route.target /\ route.source \in route_G.nodes) =>
        /\ route.result = [found |-> TRUE, path |-> <<route.source>>, total |-> 0]
        /\ Len(route.result.path) - 1 = 0

\* Witness: such a query on a node whose edges are a blocked one and an open one
\* of positive cost.
C26_Witness ==
    /\ route.op = "query" /\ route.source = route.target /\ route.source \in route_G.nodes
    /\ route.result.found
    /\ \E a \in route_G.nodes, b \in route_G.nodes :
           /\ nx_has_edge(route_G, route.source, a) /\ nx_has_edge(route_G, route.source, b)
           /\ route_G.edges[_edgeKey(route.source, a)].blocked
           /\ ~route_G.edges[_edgeKey(route.source, b)].blocked
           /\ route_G.edges[_edgeKey(route.source, b)].yearsCost > 0

\* C27: whatever state the handler and its worker threads are in, the state
\* reset_mode leaves is the default one: mode MODE_NONE, selection stage 0,
\* selected_origin, selected_target, route_origin, route_target, proposed_path,
\* proposed_sums and current_path unset, the block-mode lock and the
\* worker-active flag released.
C27_ResetGivesDefault ==
    handler_op.name = "reset_mode" =>
        /\ handler.mode = MODE_NONE
        /\ handler.route_selection_stage = 0
        /\ handler.selected_origin = None /\ handler.selected_target = None
        /\ handler.route_origin = None /\ handler.route_target = None
        /\ handler.proposed_path = NoPath /\ handler.proposed_sums = NoSums
        /\ handler.current_path = NoPath
        /\ ~handler._block_mode_locked
        /\ ~handler._route_worker_active

\* Witness: reset_mode was called during a second selection, with an origin
\* picked, a proposal and a confirmed route from the first one, the block-mode
\* lock held and a worker thread still running; it changed all those fields.
C27_Witness ==
    /\ handler_op.name = "reset_mode"
    /\ {"mode", "route_selection_stage", "selected_origin", "route_origin",
        "proposed_path", "proposed_sums", "current_path", "_block_mode_locked",
        "_route_worker_active"} \subseteq handler_op.changed
    /\ Len(workers) > 0

\* C28: a state that beam_search has found dead is not expanded again: from
\* the second round on, no state handed to simulate_travel or simulate_visit is
\* dead by beam_search's own test.
C28_DeadStatesAreTerminal ==
    (beam_loc.pc \in {"loop", "done"} /\ beam_loc.depth_reached >= 2) =>
        \A s \in beam_loc.travel_inputs \cup beam_loc.visit_inputs : ~_is_dead(s)

\* C29: a round hands to simulate_visit only post-travel states that are alive
\* by BurroState.is_dead (life > 0, energy > 0, health not Dead), and the test
\* of beam_search gives the answer of BurroState.is_dead on every state the
\* round produced.
C29_VisitOnlyWhenAlive ==
    (beam_loc.pc \in {"loop", "done"} /\ beam_loc.depth_reached >= 1) =>
        /\ \A s \in beam_loc.visit_inputs : ~is_dead(s)
        /\ \A i \in 1..Len(beam_loc.candidates) :
               _is_dead(beam_loc.candidates[i].state) = is_dead(beam_loc.candidates[i].state)

\* the fingerprints of the candidates of the last round, and the best score a
\* candidate with fingerprint k has
CandidateKeys == {_make_key(beam_loc.candidates[i].state) : i \in 1..Len(beam_loc.candidates)}
BeamKeys == {_make_key(beam_loc.beam[i].state) : i \in 1..Len(beam_loc.beam)}
BestScoreOf(k) ==
    LET S == {beam_loc.candidates[i].score :
                 i \in {j \in 1..Len(beam_loc.candidates) :
                            _make_key(beam_loc.candidates[j].state) = k}}
    IN  CHOOSE x \in S : \A y \in S : ~score_gt(y, x)

\* C30: after every round the beam holds at most beam_width states, no two
\* with the same fingerprint; each is the best-scored candidate of its
\* fingerprint; and no candidate fingerprint left out of the beam has a best
\* score greater than the score of a state kept.
C30_BeamIsTopUnique ==
    (beam_loc.pc \in {"loop", "done"} /\ beam_loc.candidates # <<>>) =>
        /\ Len(beam_loc.beam) <= beam_call.beam_width
        /\ Len(beam_loc.beam) = Min(beam_call.beam_width, Cardinality(CandidateKeys))
        /\ \A i \in 1..Len(beam_loc.beam), j \in 1..Len(beam_loc.beam) :
               i # j => _make_key(beam_loc.beam[i].state) # _make_key(beam_loc.beam[j].state)
        /\ \A i \in 1..Len(beam_loc.beam) :
               /\ beam_loc.beam[i].score = _score_for_sort(beam_loc.beam[i].state)
               /\ beam_loc.beam[i].score = BestScoreOf(_make_key(beam_loc.beam[i].state))
               /\ \A k \in CandidateKeys \ BeamKeys :
                      ~score_gt(BestScoreOf(k), beam_loc.beam[i].score)

\* Witness: a round in which two candidates shared a fingerprint and a unique
\* candidate scoring less than a kept one was left out of a full beam.
C30_Witness ==
    /\ beam_loc.pc \in {"loop", "done"}
    /\ Len(beam_loc.candidates) > Cardinality(CandidateKeys)
    /\ Cardinality(CandidateKeys) > beam_call.beam_width
    /\ Len(beam_loc.beam) = beam_call.beam_width
    /\ beam_call.beam_width > 1
    /\ \E k \in CandidateKeys \ BeamKeys, i \in 1..Len(beam_loc.beam) :
           score_gt(beam_loc.beam[i].score, BestScoreOf(k))

\* the last round of the search: whether it produced candidates, and whether
\* every state kept in the beam is dead as the planner tests it
LastRoundEmpty == beam_loc.depth_reached >= 1 /\ beam_loc.candidates = <<>>
LastBeamAllDead ==
    /\ beam_loc.candidates # <<>>
    /\ \A i \in 1..Len(beam_loc.beam) : _is_dead(beam_loc.beam[i].state)
ReasonsAgree ==
    /\ beam_loc.depth_reached <= beam_call.max_depth
    /\ beam_loc.pc = "loop" =>
           /\ beam_loc.depth_reached < beam_call.max_depth
           /\ ~LastRoundEmpty /\ ~LastBeamAllDead
    /\ (beam_ret.returned /\ beam_ret.meta.reason_stop # "start_dead") =>
           /\ beam_ret.meta.depth_reached = beam_loc.depth_reached
           /\ beam_ret.meta.reason_stop
                  \in {"no_candidates", "all_dead", "max_depth_reached"}
           /\ beam_ret.meta.reason_stop = "no_candidates" <=> LastRoundEmpty
           /\ beam_ret.meta.reason_stop = "all_dead" <=> LastBeamAllDead
           /\ beam_ret.meta.reason_stop = "max_depth_reached" =>
                  beam_loc.depth_reached = beam_call.max_depth

\* C31: every call of beam_search returns, after at most max_depth rounds and
\* with depth_reached <= max_depth; reason_stop is no_candidates exactly when
\* the last round produced no candidate, all_dead exactly when it produced
\* candidates and every state kept in the beam is dead, and max_depth_reached
\* only when max_depth rounds were completed with neither.
C31_TerminatesWithReason == []ReasonsAgree /\ <>(beam_ret.returned)

\* Witness: a search allowed MaxDepth rounds that returned earlier, after a
\* round that left more than one state in the beam, all of them dead
C31_Witness ==
    /\ beam_ret.returned
    /\ beam_ret.meta.reason_stop = "all_dead"
    /\ beam_call.max_depth = MaxDepth
    /\ beam_loc.depth_reached \in 1..(MaxDepth - 1)
    /\ Len(beam_loc.beam) > 1

\* C32: producing a candidate from a beam member changes neither that member
\* nor a candidate produced before: each state handed to simulate_travel in a
\* round is, field by field, a member of the beam as the round found it, and the
\* candidates of the round are new values; and beam_search leaves the start
\* state of its caller as it was passed in, at entry and in every round.
C32_BranchesShareNothing ==
    [][/\ (beam_call.pc = "called" /\ beam_call'.pc = "running") =>
              beam_call'.start_state = beam_call.start_state
       /\ (beam_loc.pc = "loop" /\ beam_loc' # beam_loc) =>
              /\ beam_call'.start_state = beam_call.start_state
              /\ \A c \in beam_loc'.travel_inputs :
                     \E i \in 1..Len(beam_loc.beam) : c = beam_loc.beam[i].state]_vars

\* whether a visit of the star under the rules has a research outcome to draw
DrawsOutcome(star_attrs, rules) ==
    /\ Get(star_attrs, "investigation_years", 0) > 0
    /\ P_illness(rules) > 0 \/ P_success(rules) > 0

\* C33: a visit of a star without research years, or under rules with neither
\* an illness nor a success probability, takes no value from the random source:
\* every generator of the heap is at the same position after the visit.
C33_NoDrawWithoutResearch ==
    [][(lastOp' = "visit" /\ nsteps' = nsteps + 1
           /\ ~DrawsOutcome(args'.star_attrs, args'.rules)) =>
          \A i \in DOMAIN rngs : rngs'[i].pos = rngs[i].pos]_vars

\* C34: in a chain of calls, a visit of a state without a generator under rules
\* with a seed creates one generator from that seed, draws its first value and
\* binds it to the state returned; every later call returns a state bound to
\* the same generator, creates none, and a later visit draws the value at the
\* position the stream had reached and moves it on.
C34_SeededOnceAndCarried ==
    [][(nsteps' = nsteps + 1) =>
          /\ (lastOp' = "visit" /\ burro.rng = None
                  /\ Get(args'.rules, "rng_seed", None) # None) =>
                 /\ Len(rngs') = Len(rngs) + 1
                 /\ burro'.rng = Len(rngs')
                 /\ rngs'[burro'.rng].seed = args'.rules["rng_seed"]
                 /\ args'.r = Stream(args'.rules["rng_seed"], 0)
                 /\ rngs'[burro'.rng].pos >= 1
          /\ burro.rng # None =>
                 /\ Len(rngs') = Len(rngs)
                 /\ burro'.rng = burro.rng
                 /\ rngs'[burro.rng].seed = rngs[burro.rng].seed
                 /\ lastOp' = "travel" => rngs' = rngs
                 /\ lastOp' = "visit" =>
                        /\ args'.r = Stream(rngs[burro.rng].seed, rngs[burro.rng].pos)
                        /\ rngs'[burro.rng].pos > rngs[burro.rng].pos]_vars

\* Witness: the second of two visits under rules with a seed, from a start
\* without a generator: one generator exists, the state is bound to it, and
\* the draw of the second visit is a later value of the stream than the first
C34_Witness ==
    /\ lastOp = "visit" /\ nvisits = 2
    /\ "rng_seed" \in DOMAIN args.rules
    /\ Len(rngs) = 1 /\ burro.rng = 1 /\ prev.rng = 1
    /\ rngs[1].seed = args.rules["rng_seed"]
    /\ args.r # Stream(rngs[1].seed, 0)
    /\ \E p \in 1..(rngs[1].pos - 1) : args.r = Stream(rngs[1].seed, p)

\* a route-selection flow is under way: the handler waits for the origin or the
\* target, or a worker thread has not finished
RouteFlowUnderWay == handler.mode = MODE_ROUTE_SELECT \/ workers # <<>>

\* C35: while a route-selection flow is under way, no step of the handler or of
\* a worker (reset_mode included) leaves the handler in MODE_BLOCK with the
\* flow still under way, and none changes the blocked flag of an edge.
C35_NoBlockingDuringRouteFlow ==
    [][RouteFlowUnderWay =>
          /\ RouteFlowUnderWay' => handler'.mode # MODE_BLOCK
          /\ handler_G'.edges = handler_G.edges]_vars

\* C36: a call of toggle_block_mode in MODE_NONE without the lock enters
\* MODE_BLOCK, and a call in MODE_BLOCK returns to MODE_NONE.
C36_ToggleBlockModeToggles ==
    [][(handler_op'.name = "toggle_block_mode" /\ ~handler._block_mode_locked) =>
          /\ handler.mode = MODE_NONE => handler'.mode = MODE_BLOCK
          /\ handler.mode = MODE_BLOCK => handler'.mode = MODE_NONE]_vars

\* the state after travelling each hop's edge with simulate_travel and visiting
\* each hop's star with simulate_visit, in order, from position i of the path
RECURSIVE HopByHop(_, _, _, _, _)
HopByHop(acc, path, G, rules, i) ==
    IF i > Len(path) THEN acc
    ELSE LET u == acc.s.node
             v == path[i]
             s1 == IF u # None /\ u # v
                   THEN [simulate_travel(acc.s, Get(G.edges, _edgeKey(u, v), EmptyDict),
                                         rules).state EXCEPT !.node = v]
                   ELSE acc.s
             vis == simulate_visit(s1, G.attrs[v], rules, EmptyDict, acc.heap, <<0, 0, 0>>)
         IN  HopByHop([s |-> vis.state, heap |-> vis.heap], path, G, rules, i + 1)
HopByHopState ==
    LET place == path_call.state.node = None /\ path_call.path # <<>>
        s == IF place THEN [path_call.state EXCEPT !.node = path_call.path[1]]
             ELSE path_call.state
    IN  HopByHop([s |-> s, heap |-> <<>>], path_call.path, path_call.G,
                 path_call.rules, IF place THEN 2 ELSE 1).s

\* C37: the state simulate_path returns has the life, energy, food, health,
\* visited set and position of the state obtained by applying simulate_travel
\* over each hop's edge and simulate_visit at each hop's star, in order.
C37_PathIsHopByHop ==
    path_out.returned =>
        \A f \in {"life_years_left", "energy_pct", "grass_kg", "health", "visited", "node"} :
            path_out.state[f] = HopByHopState[f]

\* C38: once a route-selection flow has ended (the handler no longer waits for
\* a star and no worker thread is left), the block-mode lock that
\* start_route_selection took has been released, whichever way the flow ended.
C38_LockReleasedAfterFlow ==
    ~RouteFlowUnderWay => ~handler._block_mode_locked

\* whether an edge between consecutive stars of the path is blocked in G
HasBlockedEdge(G, path) ==
    \E i \in 1..(Len(path) - 1) :
        Get(Get(G.edges, _edgeKey(path[i], path[i + 1]), EmptyDict), "blocked", FALSE)

\* C39: when finalize_route_calculation confirms a route (sets current_path
\* from the proposal), no edge of that route is blocked in the handler's graph.
C39_ConfirmedRouteIsOpen ==
    [][(handler_op'.name = "finalize_route_calculation"
           /\ handler.proposed_path # NoPath) =>
          /\ handler'.current_path = handler.proposed_path
          /\ ~HasBlockedEdge(handler_G', handler'.current_path)]_vars

\* C40: in the parser's output and after populate_star_defaults, a star keeps
\* each of investigation_years, time_per_kg_years and invest_energy_per_year_pct
\* that its input gives, and has a value inside the attribute's range for each
\* one the input does not give.
C40_StarDefaultsOnlyWhenMissing ==
    parse_out.pc \in {"parsed", "populated"} =>
        \A sid \in parse_data.stars : \A k \in 1..Len(STAR_DEFAULT_KEYS) :
            LET key == STAR_DEFAULT_KEYS[k]
                given == parse_data.star_input[sid]
                out == parse_out.star_attrs[sid]
            IN  /\ key \in DOMAIN out
                /\ IF key \in DOMAIN given THEN out[key] = given[key]
                   ELSE /\ StarDefaultRange(k)[1] <= out[key]
                        /\ out[key] <= StarDefaultRange(k)[2]

=============================================================================
